---- MODULE Spec2Model ----
(***************************************************************************)
(* A model of the job lifecycle of sqooler's MongodbProviderExtended       *)
(* (src/src/sqooler/storage_providers/mongodb.py).                         *)
(*                                                                         *)
(* The storage is a set of MongoDB collections, addressed by the storage   *)
(* path ("jobs/queued/<backend>", "jobs/running", ...).  Every pymongo     *)
(* call (find, find_one, delete_one, insert_one, replace_one) is one       *)
(* atomic step; a provider method that makes several of them is several    *)
(* steps of the worker that runs it, so that the steps of concurrent       *)
(* workers interleave.                                                     *)
(***************************************************************************)
EXTENDS Integers, Sequences, FiniteSets, TLC

\* ------------------------------------------------------------------ bounds
\* number of worker processes that poll the queue
NWorkers == 2
\* number of jobs that are uploaded over a run
MaxJobs == 2
\* number of jobs that are uploaded over a run of concurrent workers
MaxConcurrentJobs == 1
\* number of files that are uploaded by the caller of the methods on files
MaxFiles == 1

Workers == 1..NWorkers
\* The ObjectIds of the jobs.  upload_job draws a fresh id for every job;
\* the ids are numbered in the order in which they are drawn.
Oids == 1..MaxJobs
\* the backends of spooler_files (display names)
Backends == {"fermions", "singlequdit"}
\* the backend the concurrent workers poll
ConcurrentBackends == {"fermions"}

VARIABLES
    db,             \* storage path -> the documents of that collection
    backend_of,     \* ObjectId -> the backend the job was uploaded for
    uploaded,       \* ObjectId -> the content that was passed to upload for it
    pc,             \* worker -> the storage step it is about to make
    call,           \* worker -> the arguments of the call it is in
    result_found,   \* worker -> move_file's local variable result_found
    next_job,       \* worker -> the job it was handed and has not reported yet
    ended,          \* the call that the last step ended: its arguments and how it ended
    n_returned,     \* ObjectId -> number of get_next_job_in_queue calls that returned it
    n_running,      \* ObjectId -> number of successful inserts into jobs/running
    is_active,      \* the provider's attribute is_active
    json_dict,      \* the job payload that is handed to the spooler
    status_msg_dict,\* the StatusMsgDict that is handed to add_job, which changes it in place
    returned,       \* how the last call of a method of the spooler ended
    trace,          \* the calls that the last add_job made, in their order
    db_before       \* the storage as it was when update_in_database was last called

\* the state of the spooler
spooler == <<json_dict, status_msg_dict, returned, trace>>

vars == <<db, backend_of, uploaded, pc, call, result_found, next_job, ended, n_returned, n_running,
          is_active, spooler, db_before>>

\* ------------------------------------------------------------ python values
\* A python value that may be an int or a str carries its type.
PyInt(n) == <<"int", n>>
PyStr(s) == <<"str", s>>
\* the python value None, where a string is expected
None == "None"
\* A python dict is the set of its items <<key, value>>.
\* d.pop(key, None)
pop(d, key) == {item \in d : item[1] # key}
\* d[key] = value
setitem(d, key, value) == pop(d, key) \cup {<<key, value>>}
\* d[key], the key being in d
getitem(d, key) == (CHOOSE item \in d : item[1] = key)[2]
\* the python value None, where a dict is expected
NoContent == {<<"None", 0>>}
\* the job_dict of a job
JobPayload == {<<"experiment_0", 1>>}

\* A document of a collection: its _id and its other fields.
\* find_one's None, where a document is expected
NoDocument == [_id |-> 0, body |-> NoContent]
\* the document insert_one stores for a dict that has an _id
Document(content_dict) ==
    [_id |-> getitem(content_dict, "_id"), body |-> pop(content_dict, "_id")]
\* the dict find_one hands out for a document
DictOf(document) == setitem(document.body, "_id", document._id)
NoBackend == "None"


\* str(ObjectId): get_file_queue hands the ids out as strings
StrOfObjectId(oid) == ToString(oid)
\* the strings bson accepts as an ObjectId
IsValidId(job_id) == \E oid \in Oids : StrOfObjectId(oid) = job_id
\* ObjectId(job_id): the provider's methods take the id as a string
ObjectId(job_id) == CHOOSE oid \in Oids : StrOfObjectId(oid) = job_id

\* ------------------------------------------------------------ storage paths
\* one queue for all the backends
one_queue(backend_name) == "jobs/queued/fermions"
queue_dir(backend_name) == "jobs/queued/" \o backend_name
job_json_start_dir == "jobs/running"
job_finished_json_dir(backend_name) == "jobs/finished/" \o backend_name
deleted_json_dir == "jobs/deleted"
status_json_dir(backend_name) == "status/" \o backend_name
result_json_dir(backend_name) == "results/" \o backend_name
config_path == "backends/configs"
pkey_path == "backends/public_keys"

Paths ==
    {job_json_start_dir, deleted_json_dir, config_path, pkey_path}
        \cup {queue_dir(b) : b \in Backends}
        \cup {job_finished_json_dir(b) : b \in Backends}
        \cup {status_json_dir(b) : b \in Backends}
        \cup {result_json_dir(b) : b \in Backends}

\* ------------------------------------------------------- pymongo collections
\* collection.find_one({"_id": oid})
find_one(collection, oid) ==
    IF \E d \in collection : d._id = oid
    THEN CHOOSE d \in collection : d._id = oid
    ELSE NoDocument

\* collection.delete_one({"_id": oid}): deletes the document if it is there
delete_one(collection, oid) == {d \in collection : d._id # oid}

\* whether insert_one(document) is rejected with DuplicateKeyError
DuplicateKey(collection, document) == \E d \in collection : d._id = document._id

\* collection.insert_one(document), the _id being new
insert_one(collection, document) == collection \cup {document}

\* collection.replace_one({"_id": oid}, content).matched_count
matched_count(collection, oid) == Cardinality({d \in collection : d._id = oid})

\* collection.replace_one({"_id": oid}, content): no upsert
replace_one(collection, oid, content) ==
    {IF d._id = oid THEN [_id |-> oid, body |-> content] ELSE d : d \in collection}

\* the ids of a collection
Ids(path) == {d._id : d \in db[path]}

\* The documents of a collection in its natural order.  The ids are numbered
\* in the order of their insertion, which is the order find() yields them in.
RECURSIVE NaturalOrder(_)
NaturalOrder(ids) ==
    IF ids = {} THEN <<>>
    ELSE LET first == CHOOSE i \in ids : \A k \in ids : i <= k
         IN  <<first>> \o NaturalOrder(ids \ {first})

\* get_file_queue that leaves out the first document
all_but_first(storage_path) ==
    LET order == NaturalOrder(Ids(storage_path))
    IN  [i \in 1..(Len(order) - 1) |-> StrOfObjectId(order[i + 1])]

\* get_file_queue(storage_path): the ids of the collection, as strings
get_file_queue(storage_path) ==
    LET order == NaturalOrder(Ids(storage_path))
    IN  [i \in 1..Len(order) |-> StrOfObjectId(order[i])]

\* ------------------------------------------------------------------- state
NoCall == [op |-> "none", backend_name |-> NoBackend, job_id |-> None,
           status |-> None, start_path |-> None, final_path |-> None]
NoJobDict == [job_id |-> <<"none", 0>>, job_json_path |-> None]
NoJob == [job_id |-> None, backend_name |-> NoBackend]

\* no call has just ended
NotEnded == [op |-> "none", backend_name |-> NoBackend, job_id |-> None,
             status |-> None, start_path |-> None, final_path |-> None,
             kind |-> "none", exc |-> None, job_dict |-> NoJobDict,
             value |-> NoContent, content_dict |-> NoContent]

\* how a call ends: it returns (the job_dict of get_next_job_in_queue, or the
\* dict of a method that returns one) or it raises; content_dict is what the
\* caller's dict is after an upload
Returns(job_dict) == [kind |-> "return", exc |-> None, job_dict |-> job_dict,
                      value |-> NoContent, content_dict |-> NoContent]
ReturnsValue(value) == [kind |-> "return", exc |-> None, job_dict |-> NoJobDict,
                        value |-> value, content_dict |-> NoContent]
Raises(exc) == [kind |-> "raise", exc |-> exc, job_dict |-> NoJobDict,
                value |-> NoContent, content_dict |-> NoContent]
\* the record of a call that has just ended
Ended(the_call, outcome) ==
    [op |-> the_call.op, backend_name |-> the_call.backend_name,
     job_id |-> the_call.job_id, status |-> the_call.status,
     start_path |-> the_call.start_path, final_path |-> the_call.final_path,
     kind |-> outcome.kind, exc |-> outcome.exc, job_dict |-> outcome.job_dict,
     value |-> outcome.value, content_dict |-> outcome.content_dict]

\* no StatusMsgDict was handed to the spooler
NoStatus == [job_id |-> None, status |-> None, detail |-> <<>>, error_message |-> <<>>]
\* no method of the spooler was called
NotReturned == [op |-> "none", exc |-> None, err_code |-> <<>>, exp_ok |-> FALSE,
                results |-> <<>>]

Init ==
    /\ db = [p \in Paths |-> {}]
    /\ backend_of = [oid \in Oids |-> NoBackend]
    /\ uploaded = [oid \in Oids |-> NoContent]
    /\ pc = [w \in Workers |-> "idle"]
    /\ call = [w \in Workers |-> NoCall]
    /\ result_found = [w \in Workers |-> NoDocument]
    /\ next_job = [w \in Workers |-> NoJob]
    /\ ended = NotEnded
    /\ n_returned = [oid \in Oids |-> 0]
    /\ n_running = [oid \in Oids |-> 0]
    /\ is_active = TRUE
    /\ json_dict = <<>>
    /\ status_msg_dict = NoStatus
    /\ returned = NotReturned
    /\ trace = <<>>
    /\ db_before = [p \in Paths |-> {}]

\* ----------------------------------------------------------------- clients
\* the id upload_job draws: uuid4().hex[:24], an id that is not in use
FreshOid == CHOOSE oid \in Oids :
    /\ backend_of[oid] = NoBackend
    /\ \A k \in Oids : backend_of[k] = NoBackend => oid <= k

\* upload(content_dict, storage_path, job_id), the id being new at the path
upload(content_dict, storage_path, job_id) ==
    [db EXCEPT ![storage_path] =
        insert_one(@, Document(setitem(content_dict, "_id", ObjectId(job_id))))]

\* upload_job(job_dict, display_name, username)
upload_job_dict(job_dict, display_name) ==
    /\ \E oid \in Oids : backend_of[oid] = NoBackend
    /\ LET job_id == StrOfObjectId(FreshOid)
       IN  /\ db' = upload(job_dict, queue_dir(display_name), job_id)
           /\ backend_of' = [backend_of EXCEPT ![FreshOid] = display_name]
           /\ uploaded' = [uploaded EXCEPT ![FreshOid] = job_dict]
    /\ ended' = NotEnded
    /\ UNCHANGED <<pc, call, result_found, next_job, n_returned, n_running, is_active, spooler, db_before>>

\* upload_job for the job_dict of a job
upload_job(display_name) == upload_job_dict(JobPayload, display_name)

\* StatusMsgDict(job_id=..., status=...).model_dump(): the fields job_id and
\* status of a status record (detail and error_message are free text)
StatusMsgDict(job_id, status) == {<<"job_id", job_id>>, <<"status", status>>}

\* upload_status(display_name, username, job_id); a second upload for the
\* id is rejected by insert_one and changes nothing
upload_status(display_name, job_id) ==
    /\ IsValidId(job_id)
    /\ ~DuplicateKey(db[status_json_dir(display_name)],
                     [_id |-> ObjectId(job_id),
                      body |-> StatusMsgDict(job_id, "INITIALIZING")])
    /\ db' = upload(StatusMsgDict(job_id, "INITIALIZING"),
                    status_json_dir(display_name), job_id)
    /\ ended' = NotEnded
    /\ UNCHANGED <<backend_of, uploaded, pc, call, result_found, next_job, n_returned, n_running, is_active, spooler, db_before>>

\* ----------------------------------------------------------------- workers
\* the end of the call the_call of worker w
Finish(w, the_call, outcome) ==
    /\ pc' = [pc EXCEPT ![w] = "idle"]
    /\ call' = [call EXCEPT ![w] = NoCall]
    /\ ended' = Ended(the_call, outcome)

\* get_next_job_in_queue that takes the last job of the list
last_job(job_list) == job_list[Len(job_list)]

\* get_next_job_in_queue: job_id = job_list[0]
first_job(job_list) == job_list[1]

\* get_next_job_in_queue(backend_name), up to its call of move_file
get_next_job_in_queue(w, backend_name) ==
    /\ pc[w] = "idle"
    /\ next_job[w] = NoJob
    /\ LET job_list == get_file_queue(queue_dir(backend_name))
           this_call == [NoCall EXCEPT !.op = "get_next_job_in_queue",
                                        !.backend_name = backend_name]
       IN  IF job_list # <<>>
           THEN /\ call' = [call EXCEPT ![w] =
                        [this_call EXCEPT !.job_id = first_job(job_list),
                                          !.start_path = queue_dir(backend_name),
                                          !.final_path = job_json_start_dir]]
                /\ pc' = [pc EXCEPT ![w] = "move_find"]
                /\ ended' = NotEnded
           ELSE Finish(w, this_call,
                       Returns([job_id |-> PyInt(0), job_json_path |-> "None"]))
    /\ UNCHANGED <<db, backend_of, uploaded, result_found, next_job, n_returned, n_running, is_active, spooler, db_before>>

\* move_file: result_found = collection.find_one(document_to_find)
move_find(w) ==
    /\ pc[w] = "move_find"
    /\ result_found' = [result_found EXCEPT ![w] =
            find_one(db[call[w].start_path], ObjectId(call[w].job_id))]
    /\ pc' = [pc EXCEPT ![w] = "move_delete"]
    /\ ended' = NotEnded
    /\ UNCHANGED <<db, backend_of, uploaded, call, next_job, n_returned, n_running, is_active, spooler, db_before>>

\* move_file without its delete_one: a copy instead of a move
move_delete_skipped(w) ==
    /\ pc[w] = "move_delete"
    /\ pc' = [pc EXCEPT ![w] = "move_insert"]
    /\ ended' = NotEnded
    /\ UNCHANGED <<db, backend_of, uploaded, call, result_found, next_job, n_returned, n_running, is_active, spooler, db_before>>

\* move_file: collection.delete_one(document_to_find)
move_delete(w) ==
    /\ pc[w] = "move_delete"
    /\ db' = [db EXCEPT ![call[w].start_path] =
            delete_one(@, ObjectId(call[w].job_id))]
    /\ pc' = [pc EXCEPT ![w] = "move_insert"]
    /\ ended' = NotEnded
    /\ UNCHANGED <<backend_of, uploaded, call, result_found, next_job, n_returned, n_running, is_active, spooler, db_before>>

\* what follows move_file in the method that called it
AfterMove(w) ==
    IF call[w].op = "get_next_job_in_queue"
    THEN /\ Finish(w, call[w], Returns([job_id |-> PyStr(call[w].job_id),
                                        job_json_path |-> "jobs/running"]))
         /\ next_job' = [next_job EXCEPT ![w] =
                [job_id |-> call[w].job_id, backend_name |-> call[w].backend_name]]
         /\ n_returned' = [n_returned EXCEPT ![ObjectId(call[w].job_id)] = @ + 1]
    ELSE IF call[w].op = "move_file"
    THEN /\ Finish(w, call[w], Returns(NoJobDict))
         /\ UNCHANGED <<next_job, n_returned>>
    ELSE /\ pc' = [pc EXCEPT ![w] = "update_status"]
         /\ UNCHANGED <<call, next_job, n_returned>>
         /\ ended' = NotEnded

\* move_file that inserts its filter instead of the document it has read
document_to_find(w) == [_id |-> ObjectId(call[w].job_id), body |-> {}]

\* move_file: the document it inserts, the one it has read
moved_document(w) == result_found[w]

\* move_file: collection.insert_one(result_found) into the final collection.
\* insert_one(None) raises TypeError, an _id that is in the collection
\* DuplicateKeyError.
move_insert(w) ==
    /\ pc[w] = "move_insert"
    /\ IF result_found[w] = NoDocument
       THEN /\ Finish(w, call[w], Raises("TypeError"))
            /\ UNCHANGED <<db, next_job, n_returned, n_running>>
       ELSE IF DuplicateKey(db[call[w].final_path], result_found[w])
       THEN /\ Finish(w, call[w], Raises("DuplicateKeyError"))
            /\ UNCHANGED <<db, next_job, n_returned, n_running>>
       ELSE /\ db' = [db EXCEPT ![call[w].final_path] =
                        insert_one(@, moved_document(w))]
            /\ n_running' =
                 IF call[w].final_path = job_json_start_dir
                 THEN [n_running EXCEPT ![result_found[w]._id] = @ + 1]
                 ELSE n_running
            /\ AfterMove(w)
    /\ result_found' = [result_found EXCEPT ![w] = NoDocument]
    /\ UNCHANGED <<backend_of, uploaded, is_active, spooler, db_before>>

\* update_in_database without the check of result_dict
result_never_missing(status, result_dict) == FALSE

\* update_in_database: the check  result_dict is None  of a DONE job
result_is_missing(status, result_dict) ==
    status = "DONE" /\ result_dict = NoContent

\* update_in_database that moves the job without uploading the result
writes_no_result(status) == FALSE

\* update_in_database that uploads the result whatever the status
writes_result_always(status) == TRUE

\* update_in_database: whether the result is uploaded for a status
writes_result(status) == status = "DONE"

\* update_in_database that leaves the job of an ERROR in jobs/running
moves_done_only(status) == status = "DONE"

\* update_in_database: whether the job is moved for a status
moves_job(status) == status \in {"DONE", "ERROR"}

\* update_in_database: where the job is moved to
final_dir(status, backend_name) ==
    IF status = "DONE" THEN job_finished_json_dir(backend_name)
    ELSE deleted_json_dir

\* update_in_database(result_dict, status_msg_dict, job_id, backend_name),
\* up to its first storage step: called by a worker for the job it was
\* handed, with the backend it polled.  The first storage step is the upload
\* of the result (DONE), or the find_one of move_file (ERROR).
update_in_database(w, status, result_dict) ==
    /\ pc[w] = "idle"
    /\ next_job[w] # NoJob
    /\ LET job_id == next_job[w].job_id
           backend_name == next_job[w].backend_name
           this_call == [op |-> "update_in_database",
                         backend_name |-> backend_name,
                         job_id |-> job_id,
                         status |-> status,
                         start_path |-> job_json_start_dir,
                         final_path |-> final_dir(status, backend_name)]
           document == [_id |-> ObjectId(job_id), body |-> result_dict]
       IN  IF result_is_missing(status, result_dict)
           THEN /\ Finish(w, this_call, Raises("ValueError"))
                /\ UNCHANGED <<db, result_found>>
           ELSE IF writes_result(status)
           THEN IF DuplicateKey(db[result_json_dir(backend_name)], document)
                THEN /\ Finish(w, this_call, Raises("DuplicateKeyError"))
                     /\ UNCHANGED <<db, result_found>>
                ELSE /\ db' = upload(result_dict, result_json_dir(backend_name), job_id)
                     /\ call' = [call EXCEPT ![w] = this_call]
                     /\ pc' = [pc EXCEPT ![w] = "move_find"]
                     /\ ended' = NotEnded
                     /\ UNCHANGED result_found
           ELSE IF moves_job(status)
           THEN /\ result_found' = [result_found EXCEPT ![w] =
                        find_one(db[job_json_start_dir], ObjectId(job_id))]
                /\ call' = [call EXCEPT ![w] = this_call]
                /\ pc' = [pc EXCEPT ![w] = "move_delete"]
                /\ ended' = NotEnded
                /\ UNCHANGED db
           ELSE /\ call' = [call EXCEPT ![w] = this_call]
                /\ pc' = [pc EXCEPT ![w] = "update_status"]
                /\ ended' = NotEnded
                /\ UNCHANGED <<db, result_found>>
    /\ next_job' = [next_job EXCEPT ![w] = NoJob]
    /\ UNCHANGED <<backend_of, uploaded, n_returned, n_running, is_active, spooler>>

\* update_file(content_dict, storage_path, job_id)
update_file(content, storage_path, job_id) ==
    [db EXCEPT ![storage_path] = replace_one(@, ObjectId(job_id), content)]

\* update_in_database: self.update_file(status_msg_dict.model_dump(), status_json_dir, job_id).
\* The status_msg_dict a worker passes is the one of the job it reports.
update_status(w) ==
    /\ pc[w] = "update_status"
    /\ LET path == status_json_dir(call[w].backend_name)
       IN  IF matched_count(db[path], ObjectId(call[w].job_id)) = 0
           THEN /\ Finish(w, call[w], Raises("FileNotFoundError"))
                /\ UNCHANGED db
           ELSE /\ db' = update_file(StatusMsgDict(call[w].job_id, call[w].status),
                                      path, call[w].job_id)
                /\ Finish(w, call[w], Returns(NoJobDict))
    /\ UNCHANGED <<backend_of, uploaded, result_found, next_job, n_returned, n_running, is_active, spooler, db_before>>

\* a worker process stops in the middle of a call and is started again
crash(w) ==
    /\ pc[w] # "idle"
    /\ pc' = [pc EXCEPT ![w] = "idle"]
    /\ call' = [call EXCEPT ![w] = NoCall]
    /\ result_found' = [result_found EXCEPT ![w] = NoDocument]
    /\ ended' = NotEnded
    /\ UNCHANGED <<db, backend_of, uploaded, next_job, n_returned, n_running, is_active, spooler, db_before>>

\* the values a worker passes to update_in_database
Statuses == {"DONE", "ERROR"}
ResultDict == {<<"job_id", "None">>, <<"status", "finished">>}
ResultDicts == {ResultDict, NoContent}

\* the number of jobs uploaded so far
NUploaded == Cardinality({oid \in Oids : backend_of[oid] # NoBackend})

\* Workers that run concurrently: their storage steps interleave.  A worker
\* that stops in the middle of a call is a worker that makes no further step.
\* The client uploads the status of a job it has uploaded.
Client ==
    \/ /\ NUploaded < MaxConcurrentJobs
       /\ \E b \in ConcurrentBackends : upload_job(b)
    \/ \E b \in ConcurrentBackends, oid \in Oids :
            backend_of[oid] = b /\ upload_status(b, StrOfObjectId(oid))

Worker(w) ==
    \/ \E b \in ConcurrentBackends : get_next_job_in_queue(w, b)
    \/ move_find(w)
    \/ move_delete(w)
    \/ move_insert(w)
    \/ \E s \in Statuses, r \in ResultDicts :
            update_in_database(w, s, r) /\ UNCHANGED db_before
    \/ update_status(w)

Next == Client \/ \E w \in Workers : Worker(w)

Spec == Init /\ [][Next]_vars

\* One call at a time, for every backend: a worker makes a step only while
\* no other worker is in the middle of a call.  A worker may stop in the
\* middle of its call and start again.
Alone(w) == \A v \in Workers \ {w} : pc[v] = "idle"

ClientSeq ==
    \/ \E b \in Backends : upload_job(b)
    \/ \E b \in Backends, oid \in Oids :
            backend_of[oid] = b /\ upload_status(b, StrOfObjectId(oid))

WorkerSeq(w) ==
    \/ \E b \in Backends : Alone(w) /\ get_next_job_in_queue(w, b)
    \/ Alone(w) /\ move_find(w)
    \/ Alone(w) /\ move_delete(w)
    \/ Alone(w) /\ move_insert(w)
    \/ \E s \in Statuses, r \in ResultDicts :
            Alone(w) /\ update_in_database(w, s, r) /\ UNCHANGED db_before
    \/ Alone(w) /\ update_status(w)
    \/ crash(w)

NextSeq == ClientSeq \/ \E w \in Workers : WorkerSeq(w)

SpecSeq == Init /\ [][NextSeq]_vars

\* ------------------------------------------------- the methods on one file
\* a job id that is no ObjectId
MalformedId == "non_existing"
\* the job ids a caller passes
JobIds == {StrOfObjectId(oid) : oid \in Oids} \cup {MalformedId}
\* the job ids a caller uploads a file for
UploadIds == {StrOfObjectId(oid) : oid \in Oids \cap (1..MaxFiles)} \cup {MalformedId}

\* the content_dicts a caller uploads; a dict may come with an _id of its own
Artifacts ==
    {{<<"experiment_0", 1>>},
     {<<"experiment_0", 2>>, <<"_id", 7>>}}

\* a call of a method that takes a storage path and a job id
FileCall(op, storage_path, job_id) ==
    [NoCall EXCEPT !.op = op, !.job_id = job_id, !.start_path = storage_path]

\* upload that leaves the _id in the caller's dict
id_kept(content_dict) == content_dict

\* upload: content_dict.pop("_id", None)
id_removed(content_dict) == pop(content_dict, "_id")

\* upload(content_dict, storage_path, job_id), the whole method.
\* ObjectId(job_id) raises InvalidId before the dict is touched; insert_one
\* raises DuplicateKeyError before the _id is popped.
upload_file(w, content_dict, storage_path, job_id) ==
    /\ pc[w] = "idle"
    /\ LET this_call == FileCall("upload", storage_path, job_id)
       IN  IF ~IsValidId(job_id)
           THEN /\ Finish(w, this_call,
                         [Raises("InvalidId") EXCEPT !.content_dict = content_dict])
                /\ UNCHANGED <<db, uploaded>>
           ELSE LET with_id == setitem(content_dict, "_id", ObjectId(job_id))
                IN  IF DuplicateKey(db[storage_path], Document(with_id))
                    THEN /\ Finish(w, this_call,
                                [Raises("DuplicateKeyError") EXCEPT !.content_dict = with_id])
                         /\ UNCHANGED <<db, uploaded>>
                    ELSE /\ db' = upload(content_dict, storage_path, job_id)
                         /\ uploaded' = [uploaded EXCEPT ![ObjectId(job_id)] = content_dict]
                         /\ Finish(w, this_call,
                                [Returns(NoJobDict) EXCEPT !.content_dict = id_removed(with_id)])
    /\ UNCHANGED <<backend_of, result_found, next_job, n_returned, n_running, is_active, spooler, db_before>>

\* get_file_content without its except clause for InvalidId
get_file_content_unguarded(storage_path, job_id) ==
    IF ~IsValidId(job_id)
    THEN Raises("InvalidId")
    ELSE LET found == find_one(db[storage_path], ObjectId(job_id))
         IN  IF found._id = NoDocument._id
             THEN Raises("FileNotFoundError")
             ELSE ReturnsValue(pop(DictOf(found), "_id"))

\* get_file_content(storage_path, job_id): how the call ends
get_file_content(storage_path, job_id) ==
    IF ~IsValidId(job_id)
    THEN Raises("FileNotFoundError")
    ELSE LET found == find_one(db[storage_path], ObjectId(job_id))
         IN  IF found._id = NoDocument._id
             THEN Raises("FileNotFoundError")
             ELSE ReturnsValue(pop(DictOf(found), "_id"))

\* get_status without its except clause
get_status_unhandled(display_name, job_id) ==
    LET outcome == get_file_content(status_json_dir(display_name), job_id)
    IN  IF outcome.kind = "return"
        THEN ReturnsValue(StatusMsgDict(getitem(outcome.value, "job_id"),
                                        getitem(outcome.value, "status")))
        ELSE outcome

\* get_status(display_name, username, job_id): how the call ends
get_status(display_name, job_id) ==
    LET outcome == get_file_content(status_json_dir(display_name), job_id)
    IN  IF outcome.kind = "return"
        THEN ReturnsValue(StatusMsgDict(getitem(outcome.value, "job_id"),
                                        getitem(outcome.value, "status")))
        ELSE IF outcome.exc = "FileNotFoundError"
        THEN ReturnsValue(StatusMsgDict(job_id, "ERROR"))
        ELSE outcome

\* a call of a method that reads the storage in one step and changes nothing
Reads(w, this_call, outcome) ==
    /\ pc[w] = "idle"
    /\ Finish(w, this_call, outcome)
    /\ UNCHANGED <<db, backend_of, uploaded, result_found, next_job, n_returned, n_running, is_active, spooler, db_before>>

\* delete_file(storage_path, job_id): ObjectId(job_id) raises InvalidId,
\* delete_one deletes the document if it is there
delete_file(w, storage_path, job_id) ==
    /\ pc[w] = "idle"
    /\ LET this_call == FileCall("delete_file", storage_path, job_id)
       IN  IF ~IsValidId(job_id)
           THEN /\ Finish(w, this_call, Raises("InvalidId"))
                /\ UNCHANGED db
           ELSE /\ db' = [db EXCEPT ![storage_path] = delete_one(@, ObjectId(job_id))]
                /\ Finish(w, this_call, Returns(NoJobDict))
    /\ UNCHANGED <<backend_of, uploaded, result_found, next_job, n_returned, n_running, is_active, spooler, db_before>>

\* move_file(start_path, final_path, job_id), up to its find_one:
\* ObjectId(job_id) raises InvalidId
move_file(w, start_path, final_path, job_id) ==
    /\ pc[w] = "idle"
    /\ LET this_call == [FileCall("move_file", start_path, job_id)
                            EXCEPT !.final_path = final_path]
       IN  IF ~IsValidId(job_id)
           THEN Finish(w, this_call, Raises("InvalidId"))
           ELSE /\ call' = [call EXCEPT ![w] = this_call]
                /\ pc' = [pc EXCEPT ![w] = "move_find"]
                /\ ended' = NotEnded
    /\ UNCHANGED <<db, backend_of, uploaded, result_found, next_job, n_returned, n_running, is_active, spooler, db_before>>

\* One process that calls the methods on files, one call at a time, for the
\* jobs of one backend.
Caller == CHOOSE w \in Workers : TRUE
FileBackend == CHOOSE b \in Backends : TRUE
\* where a file is uploaded
UploadPaths == {queue_dir(FileBackend)}
\* the lifecycle of a job: where a file is moved from and to
FileMoves ==
    {<<queue_dir(FileBackend), job_json_start_dir>>,
     <<job_json_start_dir, job_finished_json_dir(FileBackend)>>,
     <<job_json_start_dir, deleted_json_dir>>}
FilePaths == UploadPaths \cup {m[1] : m \in FileMoves} \cup {m[2] : m \in FileMoves}

\* an id is drawn once (uuid4): a second upload of it is an upload to the
\* place where it is
IdIsFree(storage_path, job_id) ==
    IsValidId(job_id) =>
        \/ uploaded[ObjectId(job_id)] = NoContent
        \/ ObjectId(job_id) \in Ids(storage_path)

NextFiles ==
    \/ \E a \in Artifacts, p \in UploadPaths, id \in UploadIds :
            IdIsFree(p, id) /\ upload_file(Caller, a, p, id)
    \/ \E p \in FilePaths, id \in JobIds :
            Reads(Caller, FileCall("get_file_content", p, id), get_file_content(p, id))
    \/ \E p \in FilePaths, id \in JobIds : delete_file(Caller, p, id)
    \/ \E m \in FileMoves, id \in JobIds : move_file(Caller, m[1], m[2], id)
    \/ move_find(Caller)
    \/ move_delete(Caller)
    \/ move_insert(Caller)
    \/ \E id \in JobIds :
            /\ pc[Caller] = "idle"
            /\ IsValidId(id) /\ uploaded[ObjectId(id)] # NoContent
            /\ upload_status(FileBackend, id)
    \/ \E id \in JobIds :
            Reads(Caller, [FileCall("get_status", status_json_dir(FileBackend), id)
                              EXCEPT !.backend_name = FileBackend],
                  get_status(FileBackend, id))

SpecFiles == Init /\ [][NextFiles]_vars

\* ------------------------------------------------ the config of a backend
\* the versions of a backend
Versions == {"0.0.1", "0.0.2"}
\* the time of a queue check
Now == "now"

\* The config of a backend: its display name, its version and the time of
\* the last queue check (None: the queue was never checked).
BackendConfig(display_name, version, last_queue_check) ==
    {<<"display_name", display_name>>, <<"version", version>>,
     <<"last_queue_check", last_queue_check>>}

\* the configs a spooler uploads: the display name is set by upload_config
ConfigDicts == {BackendConfig(None, v, None) : v \in Versions}

\* config_collection.find_one({"display_name": display_name})
find_config(display_name) ==
    IF \E d \in db[config_path] : getitem(d.body, "display_name") = display_name
    THEN CHOOSE d \in db[config_path] : getitem(d.body, "display_name") = display_name
    ELSE NoDocument

\* the id upload_config draws: uuid4().hex[:24], an id that is not in use
FreshConfigOid == CHOOSE oid \in Oids :
    /\ oid \notin Ids(config_path)
    /\ \A k \in Oids \ Ids(config_path) : oid <= k

\* upload_config:  if result_found
is_found(document) == document._id # NoDocument._id

\* upload_config(config_dict, backend_name): a config of the name is
\* replaced, else the config is uploaded under a new id
upload_config(w, config_dict, backend_name) ==
    /\ pc[w] = "idle"
    /\ LET found == find_config(backend_name)
           named == setitem(config_dict, "display_name", backend_name)
           this_call == [FileCall("upload_config", config_path, None)
                            EXCEPT !.backend_name = backend_name]
       IN  IF is_found(found)
           THEN /\ db' = update_file(named, config_path, StrOfObjectId(found._id))
                /\ Finish(w, this_call, Returns(NoJobDict))
           ELSE /\ Oids \ Ids(config_path) # {}
                /\ db' = upload(named, config_path, StrOfObjectId(FreshConfigOid))
                /\ Finish(w, this_call, Returns(NoJobDict))
    /\ UNCHANGED <<backend_of, uploaded, result_found, next_job, n_returned, n_running, is_active, spooler, db_before>>

\* timestamp_queue(display_name): stamps last_queue_check = now; fails with
\* FileNotFoundError if the config does not exist
timestamp_queue(w, display_name) ==
    /\ pc[w] = "idle"
    /\ LET found == find_config(display_name)
           this_call == [FileCall("timestamp_queue", config_path, None)
                            EXCEPT !.backend_name = display_name]
       IN  IF is_found(found)
           THEN /\ db' = update_file(setitem(found.body, "last_queue_check", Now),
                                     config_path, StrOfObjectId(found._id))
                /\ Finish(w, this_call, Returns(NoJobDict))
           ELSE /\ Finish(w, this_call, Raises("FileNotFoundError"))
                /\ UNCHANGED db
    /\ UNCHANGED <<backend_of, uploaded, result_found, next_job, n_returned, n_running, is_active, spooler, db_before>>

\* backend_dict_to_qiskit_status(backend_config_info): operational is true
\* only if last_queue_check has been set
backend_dict_to_qiskit_status(backend_config_info) ==
    {<<"backend_version", getitem(backend_config_info, "version")>>,
     <<"operational", getitem(backend_config_info, "last_queue_check") # None>>}

\* get_backend_status(display_name): how the call ends
get_backend_status(display_name) ==
    IF ~is_found(find_config(display_name))
    THEN Raises("FileNotFoundError")
    ELSE ReturnsValue(backend_dict_to_qiskit_status(find_config(display_name).body))

\* One process that uploads configs and jobs, stamps and polls the queues
\* and asks for the status of the backends, one call at a time.
NextConfig ==
    \/ \E c \in ConfigDicts, b \in Backends : upload_config(Caller, c, b)
    \/ \E b \in Backends : timestamp_queue(Caller, b)
    \/ \E b \in Backends :
            Reads(Caller, [FileCall("get_backend_status", config_path, None)
                              EXCEPT !.backend_name = b],
                  get_backend_status(b))
    \/ /\ pc[Caller] = "idle"
       /\ NUploaded < MaxConcurrentJobs
       /\ \E b \in Backends : upload_job(b)
    \/ \E b \in Backends : get_next_job_in_queue(Caller, b)
    \/ move_find(Caller)
    \/ move_delete(Caller)
    \/ move_insert(Caller)

SpecConfig == Init /\ [][NextConfig]_vars

\* ------------------------------------------------------------- properties
\* the four places of a job
JobPaths ==
    {job_json_start_dir, deleted_json_dir}
        \cup {queue_dir(b) : b \in Backends}
        \cup {job_finished_json_dir(b) : b \in Backends}

\* the places a job id is at
Locations(oid) == {p \in JobPaths : oid \in Ids(p)}

\* the stored status of a job ("None" when there is no status record)
StoredStatus(b, oid) ==
    IF oid \in Ids(status_json_dir(b))
    THEN getitem(find_one(db[status_json_dir(b)], oid).body, "status")
    ELSE None

AllIdle == \A w \in Workers : pc[w] = "idle"

\* no update_in_database has been called so far: the workers only poll
OnlyPolling ==
    /\ \A w \in Workers : call[w].op # "update_in_database"
    /\ ended.op # "update_in_database"
    /\ Ids(deleted_json_dir) = {}
    /\ \A b \in Backends :
        Ids(job_finished_json_dir(b)) = {} /\ Ids(result_json_dir(b)) = {}

\* C1: Queue exclusivity.  While the workers only poll a queue that was
\* given one job, every call of get_next_job_in_queue that ends returns (the
\* job, or the empty answer): none ends in a fault, and the job is returned
\* to at most one caller.
C1_QueueExclusivity ==
    (OnlyPolling /\ NUploaded = 1) =>
        /\ ended.op = "get_next_job_in_queue" => ended.kind = "return"
        /\ \A oid \in Oids : n_returned[oid] <= 1

\* C2: Exactly-once queued->running.  Over the whole run of pollers and of
\* workers reporting with update_in_database, a job id is returned by
\* get_next_job_in_queue to at most one caller and is inserted into
\* jobs/running at most once.
C2_ExactlyOnce ==
    \A oid \in Oids : n_returned[oid] <= 1 /\ n_running[oid] <= 1

\* C3: Single location.  Whenever no operation is in progress, every job
\* that was uploaded is in exactly one of jobs/queued/<backend>,
\* jobs/running, jobs/finished/<backend>, jobs/deleted.
C3_SingleLocation ==
    AllIdle =>
        \A oid \in Oids :
            backend_of[oid] # NoBackend => Cardinality(Locations(oid)) = 1

\* C4: move_file never leaves the artifact in neither location.  In every
\* state of a move that has read the artifact at the source, the artifact is
\* at the source or at the destination.
C4_MoveNeverInNeither ==
    \A w \in Workers :
        (pc[w] \in {"move_delete", "move_insert"} /\ result_found[w] # NoDocument) =>
            \/ result_found[w]._id \in Ids(call[w].start_path)
            \/ result_found[w]._id \in Ids(call[w].final_path)

\* C5: Terminal transition.  When update_in_database has returned, the job
\* is not in jobs/running; it is in jobs/finished/<backend> if the status
\* was DONE and in jobs/deleted if it was ERROR; and the status record at
\* status/<backend>/<job_id> is the status that was passed.
C5_TerminalTransition ==
    (ended.op = "update_in_database" /\ ended.kind = "return") =>
        LET oid == ObjectId(ended.job_id)
            b == ended.backend_name
        IN  /\ oid \notin Ids(job_json_start_dir)
            /\ ended.status = "DONE" => oid \in Ids(job_finished_json_dir(b))
            /\ ended.status = "ERROR" => oid \in Ids(deleted_json_dir)
            /\ oid \in Ids(status_json_dir(b))
            /\ find_one(db[status_json_dir(b)], oid) =
                    [_id |-> oid, body |-> StatusMsgDict(ended.job_id, ended.status)]

\* a DONE report has just returned, and an ERROR report has returned before
C5_Witness ==
    /\ ended.op = "update_in_database"
    /\ ended.kind = "return"
    /\ ended.status = "DONE"
    /\ ObjectId(ended.job_id) \in Ids(job_finished_json_dir(ended.backend_name))
    /\ \E b \in Backends, oid \in Ids(deleted_json_dir) : StoredStatus(b, oid) = "ERROR"

\* C6: In every state, every job in jobs/finished/<backend> has a result at
\* results/<backend>/<job_id>.
C6_FinishedHasResult ==
    \A b \in Backends :
        Ids(job_finished_json_dir(b)) \subseteq Ids(result_json_dir(b))

\* between the move and the status write of update_in_database: the job is
\* in jobs/finished and its status is not DONE yet
C6_Witness ==
    \E w \in Workers :
        /\ pc[w] = "update_status"
        /\ call[w].status = "DONE"
        /\ ObjectId(call[w].job_id) \in Ids(job_finished_json_dir(call[w].backend_name))
        /\ StoredStatus(call[w].backend_name, ObjectId(call[w].job_id)) = "INITIALIZING"

\* C7: The status is written last.  In every state, a job whose stored
\* status is DONE is in jobs/finished/<backend> and has its result stored,
\* and a job whose stored status is ERROR is in jobs/deleted.
C7_StatusWrittenLast ==
    \A b \in Backends, oid \in Oids :
        /\ StoredStatus(b, oid) = "DONE" =>
                /\ oid \in Ids(job_finished_json_dir(b))
                /\ oid \in Ids(result_json_dir(b))
        /\ StoredStatus(b, oid) = "ERROR" => oid \in Ids(deleted_json_dir)

\* a stored status DONE
C7_Witness ==
    \E b \in Backends, oid \in Oids :
        StoredStatus(b, oid) = "DONE" /\ oid \in Ids(job_finished_json_dir(b))

\* C8: update_in_database with status DONE and no result raises ValueError
\* and writes nothing: the storage is as it was before the call.
C8_NoResultNoWrite ==
    [][\A w \in Workers :
            update_in_database(w, "DONE", NoContent) =>
                /\ db' = db
                /\ ended'.kind = "raise"
                /\ ended'.exc = "ValueError"]_vars

\* a report of DONE without a result has just been rejected, the job being
\* in jobs/running
C8_Witness ==
    /\ ended.op = "update_in_database"
    /\ ended.status = "DONE"
    /\ ended.exc = "ValueError"
    /\ ObjectId(ended.job_id) \in Ids(job_json_start_dir)

\* C9: update_in_database with status ERROR writes no result.  No step of
\* such a call, whatever result it was given, changes results/<backend> or
\* jobs/finished/<backend>.
C9_ErrorWritesNoResult ==
    [][\A w \in Workers :
            (\/ \E r \in ResultDicts : update_in_database(w, "ERROR", r)
             \/ /\ call[w].op = "update_in_database"
                /\ call[w].status = "ERROR"
                /\ pc'[w] # pc[w])
            => \A b \in Backends :
                    /\ db'[result_json_dir(b)] = db[result_json_dir(b)]
                    /\ db'[job_finished_json_dir(b)] = db[job_finished_json_dir(b)]]_vars

\* a report of ERROR has just returned, the job being in jobs/deleted
C9_Witness ==
    /\ ended.op = "update_in_database"
    /\ ended.status = "ERROR"
    /\ ended.kind = "return"
    /\ ObjectId(ended.job_id) \in Ids(deleted_json_dir)

\* C10: get_next_job_in_queue on an empty queue returns the answer whose
\* job_id is the string "None" and moves no job.
C10_EmptyQueueSentinel ==
    [][\A w \in Workers, b \in Backends :
            (get_next_job_in_queue(w, b) /\ Ids(queue_dir(b)) = {}) =>
                /\ db' = db
                /\ ended'.kind = "return"
                /\ ended'.job_dict.job_id = PyStr("None")]_vars

\* C11: get_next_job_in_queue on a non-empty queue, one call at a time.  The
\* call changes the storage in two steps only: it takes the job it picked,
\* and nothing else, out of jobs/queued/<backend> (the queue is shorter by
\* exactly one and every other queued job is as it was), and it puts that job
\* into jobs/running.  When it returns, it returns the id it picked with
\* job_json_path jobs/running, the id is in jobs/running and not in the
\* queue, and it precedes every id left in the queue in the queue's order.
C11_FirstJobMoved ==
    [][\A w \in Workers :
            (call[w].op = "get_next_job_in_queue" /\ pc'[w] # pc[w]) =>
                LET b == call[w].backend_name
                    oid == ObjectId(call[w].job_id)
                    queue == queue_dir(b)
                    taken == {d \in db[queue] : d._id = oid}
                IN  /\ \A p \in Paths \ {queue, job_json_start_dir} : db'[p] = db[p]
                    /\ \/ db'[queue] = db[queue]
                       \/ /\ db'[queue] = db[queue] \ taken
                          /\ Cardinality(db'[queue]) = Cardinality(db[queue]) - 1
                    /\ \/ db'[job_json_start_dir] = db[job_json_start_dir]
                       \/ /\ db'[job_json_start_dir] \ db[job_json_start_dir]
                                = {[_id |-> oid, body |-> JobPayload]}
                          /\ db[job_json_start_dir] \subseteq db'[job_json_start_dir]
                    /\ ended'.op = "get_next_job_in_queue" =>
                          /\ ended'.kind = "return"
                          /\ ended'.job_dict = [job_id |-> PyStr(call[w].job_id),
                                                job_json_path |-> "jobs/running"]
                          /\ oid \in {d._id : d \in db'[job_json_start_dir]}
                          /\ oid \notin {d._id : d \in db'[queue]}
                          /\ \A d \in db'[queue] : oid < d._id]_vars

\* a call has just returned the first of two queued jobs: the second one is
\* still in the queue
C11_Witness ==
    /\ ended.op = "get_next_job_in_queue"
    /\ ended.kind = "return"
    /\ ended.job_dict.job_json_path = "jobs/running"
    /\ ObjectId(ended.job_id) \in Ids(job_json_start_dir)
    /\ Ids(queue_dir(ended.backend_name)) # {}

\* C12: A get_next_job_in_queue call that hands out a job stamps the queue
\* check.  When the call has returned a job of a backend that has a config,
\* the last_queue_check of the config is set.
C12_PollStampsQueueCheck ==
    (/\ ended.op = "get_next_job_in_queue"
     /\ ended.kind = "return"
     /\ ended.job_dict.job_json_path = "jobs/running"
     /\ is_found(find_config(ended.backend_name)))
        => getitem(find_config(ended.backend_name).body, "last_queue_check") # None

\* get_backend_status reports the backend as operational
Operational(display_name) ==
    /\ get_backend_status(display_name).kind = "return"
    /\ getitem(get_backend_status(display_name).value, "operational")

\* C13: get_backend_status fails with FileNotFoundError exactly when there
\* is no config for the name.  It reports operational = false for a config
\* that was uploaded and whose queue check was never stamped: after the
\* upload of a config for a new name the backend is not operational, and a
\* backend becomes operational only by a timestamp_queue or a polling call
\* for it.  It reports operational = true in every state after a
\* timestamp_queue for the backend has returned: the call makes the backend
\* operational, and an operational backend stays operational.
C13_OperationalAfterQueueCheck ==
    [][\A b \in Backends :
            /\ get_backend_status(b).kind = "raise" <=> ~is_found(find_config(b))
            /\ get_backend_status(b).kind = "raise" =>
                    get_backend_status(b).exc = "FileNotFoundError"
            /\ (~is_found(find_config(b)) /\ is_found(find_config(b))') => ~Operational(b)'
            /\ (~Operational(b) /\ Operational(b)') =>
                    /\ ended'.op \in {"timestamp_queue", "get_next_job_in_queue"}
                    /\ ended'.backend_name = b
            /\ (/\ ended'.op = "timestamp_queue"
                /\ ended'.backend_name = b
                /\ ended'.kind = "return") => Operational(b)'
            /\ Operational(b) => Operational(b)']_vars

\* C14: Status lifecycle.  The status record of a job is created with status
\* INITIALIZING and changes only from INITIALIZING to DONE or ERROR: once
\* the stored status is DONE or ERROR, no step changes it.
C14_StatusLifecycle ==
    [][\A b \in Backends, oid \in Oids :
            LET before == {d \in db[status_json_dir(b)] : d._id = oid}
                after == {d \in db'[status_json_dir(b)] : d._id = oid}
            IN  after # before =>
                    \/ /\ before = {}
                       /\ \A d \in after : getitem(d.body, "status") = "INITIALIZING"
                    \/ /\ \A d \in before : getitem(d.body, "status") = "INITIALIZING"
                       /\ \A d \in after : getitem(d.body, "status") \in {"DONE", "ERROR"}
                       /\ after # {}]_vars

\* has the dict the key
has_key(d, key) == \E item \in d : item[1] = key

\* C15: get_status never raises.  A call of get_status leaves the storage
\* as it is and returns a status record with the job_id that was asked for:
\* the stored record if there is one for the id, and a record with status
\* ERROR if the id is malformed or has no status record.
C15_GetStatusNeverRaises ==
    [][ended'.op = "get_status" =>
            LET job_id == ended'.job_id
                path == status_json_dir(ended'.backend_name)
            IN  /\ db' = db
                /\ ended'.kind = "return"
                /\ getitem(ended'.value, "job_id") = job_id
                /\ IF IsValidId(job_id) /\ ObjectId(job_id) \in Ids(path)
                   THEN ended'.value = find_one(db[path], ObjectId(job_id)).body
                   ELSE getitem(ended'.value, "status") = "ERROR"]_vars

\* get_status has answered for a malformed id, a status record being stored
\* for another id
C15_Witness ==
    /\ ended.op = "get_status"
    /\ ended.job_id = MalformedId
    /\ ended.kind = "return"
    /\ getitem(ended.value, "status") = "ERROR"
    /\ Ids(status_json_dir(ended.backend_name)) # {}

\* C16: get_file_content fails with FileNotFoundError, and with nothing
\* else, both for a malformed id and for a well-formed id that has no file
\* at the path.
C16_GetFileContentNotFound ==
    (/\ ended.op = "get_file_content"
     /\ \/ ~IsValidId(ended.job_id)
        \/ ObjectId(ended.job_id) \notin Ids(ended.start_path))
        => ended.kind = "raise" /\ ended.exc = "FileNotFoundError"

\* get_file_content has failed for a malformed id at a path that holds a file
C16_Witness ==
    /\ ended.op = "get_file_content"
    /\ ended.job_id = MalformedId
    /\ ended.exc = "FileNotFoundError"
    /\ Ids(ended.start_path) # {}

\* C17: delete_file fails with FileNotFoundError and leaves the storage as it
\* is whenever no file with the id is at the path (a malformed id, or a
\* well-formed id that is not there); when the file is there it is removed
\* and get_file_content fails with FileNotFoundError afterwards.
C17_DeleteFileNotFound ==
    [][\A path \in Paths, job_id \in JobIds :
            (/\ ended'.op = "delete_file"
             /\ ended'.start_path = path
             /\ ended'.job_id = job_id) =>
                IF IsValidId(job_id) /\ ObjectId(job_id) \in Ids(path)
                THEN /\ ended'.kind = "return"
                     /\ get_file_content(path, job_id)' = Raises("FileNotFoundError")
                ELSE /\ ended'.kind = "raise"
                     /\ ended'.exc = "FileNotFoundError"
                     /\ db' = db]_vars

\* C18: Round trip.  When upload has returned, the caller's dict is the dict
\* it passed without an _id, and get_file_content for the path and the id
\* returns that dict; whatever get_file_content returns for an id is the
\* dict that was uploaded for it, without an _id.
C18_RoundTrip ==
    /\ (ended.op = "upload" /\ ended.kind = "return") =>
            /\ ~has_key(ended.content_dict, "_id")
            /\ ended.content_dict = pop(uploaded[ObjectId(ended.job_id)], "_id")
            /\ get_file_content(ended.start_path, ended.job_id) =
                    ReturnsValue(ended.content_dict)
    /\ (ended.op = "get_file_content" /\ ended.kind = "return") =>
            /\ ~has_key(ended.value, "_id")
            /\ ended.value = pop(uploaded[ObjectId(ended.job_id)], "_id")

\* an upload of a dict that came with an _id of its own has returned
C18_Witness ==
    /\ ended.op = "upload"
    /\ ended.kind = "return"
    /\ has_key(uploaded[ObjectId(ended.job_id)], "_id")
    /\ ObjectId(ended.job_id) \in Ids(ended.start_path)

\* C19: move_file preserves the content.  When move_file has returned,
\* get_file_content at the final path returns the content that was uploaded
\* for the id, which is what it returned at the start path before the move,
\* and get_file_content at the start path fails with FileNotFoundError; in
\* every state, the file at any place of the job lifecycle has the content
\* that was uploaded for its id.
C19_MovePreservesContent ==
    /\ (ended.op = "move_file" /\ ended.kind = "return") =>
            /\ get_file_content(ended.final_path, ended.job_id) =
                    ReturnsValue(pop(uploaded[ObjectId(ended.job_id)], "_id"))
            /\ get_file_content(ended.start_path, ended.job_id) =
                    Raises("FileNotFoundError")
    /\ \A p \in FilePaths : \A d \in db[p] : d.body = pop(uploaded[d._id], "_id")

\* a file has been moved from jobs/running to jobs/finished/<backend>
C19_Witness ==
    /\ ended.op = "move_file"
    /\ ended.kind = "return"
    /\ ended.start_path = job_json_start_dir
    /\ ObjectId(ended.job_id) \in Ids(job_finished_json_dir(FileBackend))

\* C20: upload_config for a display name that is registered fails with
\* FileExistsError and leaves the stored config as it is.
C20_UploadConfigAlreadyExists ==
    [][\A b \in Backends :
            (/\ ended'.op = "upload_config"
             /\ ended'.backend_name = b
             /\ is_found(find_config(b))) =>
                /\ ended'.kind = "raise"
                /\ ended'.exc = "FileExistsError"
                /\ db' = db]_vars

\* ------------------------------------------------ a provider that is not active
\* MongodbProviderExtended(login_dict, name, is_active): the construction of
\* the provider object over the storage as it is
construct(w, active) ==
    /\ pc[w] = "idle"
    /\ is_active' = active
    /\ ended' = NotEnded
    /\ UNCHANGED <<db, backend_of, uploaded, pc, call, result_found, next_job,
                   n_returned, n_running, spooler, db_before>>

\* @validate_active: the decorated method func runs if the provider is
\* active, the call raises ValueError otherwise
validate_active(w, this_call, func) ==
    IF is_active
    THEN func
    ELSE /\ pc[w] = "idle"
         /\ Finish(w, this_call, Raises("ValueError"))
         /\ UNCHANGED <<db, backend_of, uploaded, result_found, next_job,
                        n_returned, n_running, is_active, spooler, db_before>>

\* upload without its decorator
unvalidated_upload(w, content_dict, storage_path, job_id) ==
    upload_file(w, content_dict, storage_path, job_id)

\* @validate_active def upload
validated_upload(w, content_dict, storage_path, job_id) ==
    validate_active(w, FileCall("upload", storage_path, job_id),
                    upload_file(w, content_dict, storage_path, job_id))

\* @validate_active def get_file_content
validated_get_file_content(w, storage_path, job_id) ==
    validate_active(w, FileCall("get_file_content", storage_path, job_id),
                    Reads(w, FileCall("get_file_content", storage_path, job_id),
                          get_file_content(storage_path, job_id)))

\* @validate_active def move_file
validated_move_file(w, start_path, final_path, job_id) ==
    validate_active(w, [FileCall("move_file", start_path, job_id)
                           EXCEPT !.final_path = final_path],
                    move_file(w, start_path, final_path, job_id))

\* @validate_active def delete_file
validated_delete_file(w, storage_path, job_id) ==
    validate_active(w, FileCall("delete_file", storage_path, job_id),
                    delete_file(w, storage_path, job_id))

\* the methods that test_not_active calls
ValidatedMethods == {"upload", "get_file_content", "move_file", "delete_file"}

\* One process that constructs the provider, active or not, over the storage
\* as it is, and calls the decorated methods on files.
NextActive ==
    \/ \E active \in BOOLEAN : construct(Caller, active)
    \/ \E a \in Artifacts, p \in UploadPaths, id \in UploadIds :
            IdIsFree(p, id) /\ validated_upload(Caller, a, p, id)
    \/ \E p \in FilePaths, id \in JobIds : validated_get_file_content(Caller, p, id)
    \/ \E p \in FilePaths, id \in JobIds : validated_delete_file(Caller, p, id)
    \/ \E m \in FileMoves, id \in JobIds : validated_move_file(Caller, m[1], m[2], id)
    \/ move_find(Caller)
    \/ move_delete(Caller)
    \/ move_insert(Caller)

SpecActive == Init /\ [][NextActive]_vars

\* C21: A provider that was constructed with is_active = False ends every call
\* of upload, get_file_content, move_file and delete_file with ValueError, and
\* the step of such a call leaves every collection of the storage as it was.
C21_InactiveRejects ==
    [][(~is_active /\ ended'.op \in ValidatedMethods)
          => (ended'.exc = "ValueError" /\ db' = db)]_vars

\* an inactive provider has rejected an upload over a storage that holds a file
C21_Witness ==
    /\ ~is_active
    /\ ended.op = "upload"
    /\ ended.exc = "ValueError"
    /\ \E p \in FilePaths : db[p] # {}

\* ---------------------------------------------------------- signed results
\* the key ids of the keys
Kids == {"test_kid", "other_kid"}
\* the secrets that create_jwk_pair draws
Secrets == {1, 2}

\* create_jwk_pair(kid): the private JWK carries the secret d, the public JWK
\* carries the point x that verifies what d has signed
private_jwk(kid, secret) == {<<"kid", kid>>, <<"d", secret>>}
public_jwk(kid, secret) == {<<"kid", kid>>, <<"x", secret>>}
create_jwk_pair(kid, secret) == <<private_jwk(kid, secret), public_jwk(kid, secret)>>
JwkPairs == {create_jwk_pair(kid, secret) : kid \in Kids, secret \in Secrets}

\* the signature of a record with a private JWK covers the record
sign(content_dict, jwk) ==
    setitem(content_dict, "signature", <<getitem(jwk, "d"), content_dict>>)

\* a verification that accepts the signature of every key
verify_unchecked(signed_dict, jwk) == has_key(signed_dict, "signature")

\* the verification of a signed record with a public JWK
verify(signed_dict, jwk) ==
    /\ has_key(signed_dict, "signature")
    /\ getitem(signed_dict, "signature")
          = <<getitem(jwk, "x"), pop(signed_dict, "signature")>>

\* upload_config(config_dict, display_name, private_jwk): the config of a
\* backend that signs carries the kid of its key
upload_signed_config(w, config_dict, display_name, jwk) ==
    upload_config(w, setitem(setitem(config_dict, "sign", TRUE),
                             "kid", getitem(jwk, "kid")), display_name)

\* the public key that is stored for a kid
find_public_key(kid) ==
    IF \E d \in db[pkey_path] : getitem(d.body, "kid") = kid
    THEN CHOOSE d \in db[pkey_path] : getitem(d.body, "kid") = kid
    ELSE NoDocument

\* the id a public key is stored under, an id that is not in use
FreshKeyOid == CHOOSE oid \in Oids :
    /\ oid \notin Ids(pkey_path)
    /\ \A k \in Oids \ Ids(pkey_path) : oid <= k

\* upload_public_key(public_jwk, display_name): a private key, a kid that is
\* not the kid of the backend's config and a kid that has a key are rejected
\* before any write
upload_public_key(w, jwk, display_name) ==
    /\ pc[w] = "idle"
    /\ LET found == find_config(display_name)
           this_call == [FileCall("upload_public_key", pkey_path, None)
                            EXCEPT !.backend_name = display_name]
       IN  IF has_key(jwk, "d")
           THEN /\ Finish(w, this_call, Raises("ValueError"))
                /\ UNCHANGED db
           ELSE IF ~is_found(found)
           THEN /\ Finish(w, this_call, Raises("FileNotFoundError"))
                /\ UNCHANGED db
           ELSE IF \/ ~has_key(found.body, "kid")
                   \/ getitem(found.body, "kid") # getitem(jwk, "kid")
           THEN /\ Finish(w, this_call, Raises("ValueError"))
                /\ UNCHANGED db
           ELSE IF is_found(find_public_key(getitem(jwk, "kid")))
           THEN /\ Finish(w, this_call, Raises("DuplicateKeyError"))
                /\ UNCHANGED db
           ELSE /\ Oids \ Ids(pkey_path) # {}
                /\ db' = upload(jwk, pkey_path, StrOfObjectId(FreshKeyOid))
                /\ Finish(w, this_call, Returns(NoJobDict))
    /\ UNCHANGED <<backend_of, uploaded, result_found, next_job, n_returned, n_running,
                   is_active, spooler, db_before>>

\* upload_result(result_dict, display_name, job_id, private_jwk): the result
\* is stored with its signature; the record of the call keeps the key
upload_result(w, result_dict, display_name, job_id, jwk) ==
    /\ pc[w] = "idle"
    /\ LET storage_path == result_json_dir(display_name)
           this_call == [FileCall("upload_result", storage_path, job_id)
                            EXCEPT !.backend_name = display_name]
       IN  IF ~IsValidId(job_id)
           THEN /\ Finish(w, this_call, Raises("InvalidId"))
                /\ UNCHANGED db
           ELSE IF ObjectId(job_id) \in Ids(storage_path)
           THEN /\ Finish(w, this_call, Raises("DuplicateKeyError"))
                /\ UNCHANGED db
           ELSE /\ db' = upload(sign(result_dict, jwk), storage_path, job_id)
                /\ Finish(w, this_call, [Returns(NoJobDict) EXCEPT !.content_dict = jwk])
    /\ UNCHANGED <<backend_of, uploaded, result_found, next_job, n_returned, n_running,
                   is_active, spooler, db_before>>

\* the public key that is registered for a backend: the key of the kid of
\* its config
get_public_key(display_name) ==
    IF ~is_found(find_config(display_name))
    THEN Raises("FileNotFoundError")
    ELSE IF ~has_key(find_config(display_name).body, "kid")
    THEN Raises("ValueError")
    ELSE LET found == find_public_key(getitem(find_config(display_name).body, "kid"))
         IN  IF is_found(found) THEN ReturnsValue(found.body)
             ELSE Raises("FileNotFoundError")

\* verify_result(display_name, job_id): how the call ends
verify_result(display_name, job_id) ==
    LET key == get_public_key(display_name)
        result == get_file_content(result_json_dir(display_name), job_id)
    IN  IF key.kind = "raise" THEN key
        ELSE IF result.kind = "raise" THEN result
        ELSE ReturnsValue({<<"verified", verify(result.value, key.value)>>})

\* the config of a backend that signs
SignedConfig == CHOOSE c \in ConfigDicts : TRUE

\* One process that registers the keys of a backend, uploads signed results
\* for it and verifies them, one call at a time.
NextSign ==
    \/ \E pair \in JwkPairs :
            upload_signed_config(Caller, SignedConfig, FileBackend, pair[1])
    \/ \E pair \in JwkPairs, i \in 1..2 :
            upload_public_key(Caller, pair[i], FileBackend)
    \/ \E id \in UploadIds, pair \in JwkPairs :
            upload_result(Caller, ResultDict, FileBackend, id, pair[1])
    \/ \E id \in UploadIds :
            Reads(Caller, [FileCall("verify_result", result_json_dir(FileBackend), id)
                              EXCEPT !.backend_name = FileBackend],
                  verify_result(FileBackend, id))

SpecSign == Init /\ [][NextSign]_vars

PyList(items) == <<"list", items>>
is_list(value) == value[1] = "list"
is_str(value) == value[1] = "str"

\* Spooler.__init__: n_max_experiments
n_max_experiments == 15
\* spooler_fermions: the number of wires of the instruction schemes
NUM_WIRES == 8

\* ---- str
\* s.startswith(prefix)
startswith(s, prefix) ==
    /\ Len(s) >= Len(prefix)
    /\ SubSeq(s, 1, Len(prefix)) = prefix
\* the decimal digits of int(); str.isdigit also holds for the digits of
\* other scripts, which int() rejects with ValueError
AsciiDigits == <<"0", "1", "2", "3", "4", "5", "6", "7", "8", "9">>
OtherDigits == {"\\u00b2"}
\* s.isdigit()
isdigit(s) ==
    /\ Len(s) > 0
    /\ \A i \in 1..Len(s) :
            \/ \E d \in 1..Len(AsciiDigits) : AsciiDigits[d] = s[i]
            \/ s[i] \in OtherDigits
\* whether int(s) raises ValueError
int_raises(s) ==
    \/ Len(s) = 0
    \/ \E i \in 1..Len(s) : \A d \in 1..Len(AsciiDigits) : AsciiDigits[d] # s[i]
\* int(s), s being a string of decimal digits
RECURSIVE int(_)
int(s) ==
    IF Len(s) = 0 THEN 0
    ELSE 10 * int(SubSeq(s, 1, Len(s) - 1))
            + (CHOOSE d \in 1..Len(AsciiDigits) : AsciiDigits[d] = s[Len(s)]) - 1
\* s.replace(old, new), old being one piece of s
replace(s, old, new) == [i \in 1..Len(s) |-> IF s[i] = old THEN new ELSE s[i]]
\* "experiment_"
experiment_ == <<"e", "x", "p", "e", "r", "i", "m", "e", "n", "t", "_">>

\* ---- how a check ends: it returns (err_code, exp_ok) or it raises
CheckReturns(err_code, exp_ok) == [exc |-> None, err_code |-> err_code, exp_ok |-> exp_ok]
CheckRaises(exc) == [exc |-> exc, err_code |-> <<>>, exp_ok |-> FALSE]
\* str(err) of a pydantic ValidationError of a model: the fields it rejects
ValidationError(model, fields) ==
    <<ToString(Len(fields)) \o " validation error for " \o model>>
        \o [i \in 1..(2 * Len(fields)) |->
                IF i % 2 = 1 THEN "\n" ELSE fields[i \div 2]]

\* ---- the instructions
\* GateDict(name, wires, params): name: str, wires: list[int],
\* params: list[float]; the fields pydantic rejects
GateDictErrors(name, wires, params) ==
    SelectSeq(<<"name", "wires", "params">>,
              LAMBDA f : \/ f = "name" /\ ~is_str(name)
                         \/ f = "wires" /\ ~is_list(wires)
                         \/ f = "params" /\ ~is_list(params))

\* gate_dict_from_list(inst_list): inst_list[0], inst_list[1], inst_list[2]
\* raise TypeError for an int and IndexError for a short list; GateDict
\* raises ValidationError
gate_dict_from_list(inst_list) ==
    IF ~is_list(inst_list) THEN [exc |-> "TypeError", err |-> <<>>]
    ELSE IF Len(inst_list[2]) < 3 THEN [exc |-> "IndexError", err |-> <<>>]
    ELSE LET errors == GateDictErrors(inst_list[2][1], inst_list[2][2], inst_list[2][3])
         IN  IF errors # <<>>
             THEN [exc |-> "ValidationError", err |-> ValidationError("GateDict", errors)]
             ELSE [exc |-> None, err |-> <<>>]

\* the instructions the spooler allows: the keys of ins_schema_dict
ins_schema_dict == {"load", "measure"}
\* ins_schema_dict[name](**gate_dict): the fields the scheme of load and
\* measure rejects (at most two wires in the range of the wires, no params)
InstructionErrors(wires, params) ==
    SelectSeq(<<"wires", "params">>,
              LAMBDA f : \/ /\ f = "wires"
                            /\ \/ Len(wires[2]) > 2
                               \/ \E i \in 1..Len(wires[2]) :
                                    wires[2][i] \notin 0..(NUM_WIRES - 1)
                         \/ f = "params" /\ Len(params[2]) > 0)

\* check_instructions: the loop goes on after an instruction that failed
goes_on(exp_ok) == FALSE
\* check_instructions:  if not exp_ok: break
breaks(exp_ok) == ~exp_ok

\* check_instructions(ins_list), from the i-th instruction on; err_code and
\* exp_ok are the local variables of the method
RECURSIVE check_instructions_loop(_, _, _, _)
check_instructions_loop(ins_list, i, err_code, exp_ok) ==
    IF i > Len(ins_list) THEN CheckReturns(err_code, exp_ok)
    ELSE LET ins == ins_list[i]
             gate_instr == gate_dict_from_list(ins)
         IN  IF gate_instr.exc \in {"TypeError", "IndexError"}
             THEN CheckRaises(gate_instr.exc)
             ELSE IF gate_instr.exc = "ValidationError"
             THEN LET err == <<"Error in instruction ">> \o gate_instr.err
                  IN  IF breaks(FALSE) THEN CheckReturns(err, FALSE)
                      ELSE check_instructions_loop(ins_list, i + 1, err, FALSE)
             ELSE IF ins[2][1][2] \notin ins_schema_dict
             THEN CheckReturns(<<"Instruction not allowed.">>, FALSE)
             ELSE LET errors == InstructionErrors(ins[2][2], ins[2][3])
                  IN  IF errors = <<>>
                      THEN check_instructions_loop(ins_list, i + 1, err_code, TRUE)
                      ELSE LET err == <<"Error in instruction ">>
                                         \o ValidationError(ins[2][1][2], errors)
                           IN  IF breaks(FALSE) THEN CheckReturns(err, FALSE)
                               ELSE check_instructions_loop(ins_list, i + 1, err, FALSE)

\* check_instructions(ins_list): err_code = "", exp_ok = False, then the loop
check_instructions(ins_list) == check_instructions_loop(ins_list, 1, <<>>, FALSE)

\* ---- the experiments
\* an experiment of a job payload: a mapping with the fields of the test's
\* device_config TestExperiment, or a value that is no mapping
Experiment(instructions, shots) ==
    [type |-> "dict", instructions |-> instructions, shots |-> shots,
     num_wires |-> 2, wire_order |-> "interleaved"]
NotAMapping == [Experiment(<<>>, 0) EXCEPT !.type = "int"]

\* TestExperiment(**exper_dict): the fields pydantic rejects
TestExperimentErrors(exper_dict) ==
    SelectSeq(<<"wire_order", "shots", "num_wires", "instructions">>,
              LAMBDA f :
                \/ f = "wire_order"
                      /\ exper_dict.wire_order \notin {"interleaved", "sequential"}
                \/ f = "shots" /\ exper_dict.shots \notin 1..5
                \/ f = "num_wires" /\ exper_dict.num_wires \notin 1..5
                \/ f = "instructions"
                      /\ \E i \in 1..Len(exper_dict.instructions) :
                            ~is_list(exper_dict.instructions[i]))

\* check_experiment(exper_dict): device_config(**exper_dict) raises TypeError
\* for a value that is no mapping; ValidationError is caught
check_experiment(exper_dict) ==
    IF exper_dict.type # "dict" THEN CheckRaises("TypeError")
    ELSE LET errors == TestExperimentErrors(exper_dict)
         IN  IF errors = <<>> THEN CheckReturns(<<>>, TRUE)
             ELSE CheckReturns(ValidationError("TestExperiment", errors), FALSE)

\* spooler_files/schemes.py, check_json_dict: max_exps
max_exps == 50

\* a test of the name that has no limit on the number
name_unbounded(expr, n_max) ==
    /\ startswith(expr, experiment_)
    /\ isdigit(SubSeq(expr, 12, Len(expr)))
    /\ ~int_raises(SubSeq(expr, 12, Len(expr)))

\* check_json_dict: the test of the name of an experiment; the bare except
\* turns the ValueError of int() into exp_ok = False
name_ok(expr, n_max) ==
    /\ startswith(expr, experiment_)
    /\ isdigit(SubSeq(expr, 12, Len(expr)))
    /\ ~int_raises(SubSeq(expr, 12, Len(expr)))
    /\ int(SubSeq(expr, 12, Len(expr))) <= n_max

WrongName == <<"Wrong experiment name or too many experiments">>

\* check_json_dict(json_dict), from the i-th experiment on; err_code and
\* exp_ok are the local variables of the method.  A python dict keeps the
\* order of insertion: json_dict is the sequence of its items.
RECURSIVE check_json_dict_loop(_, _, _, _)
check_json_dict_loop(json, i, err_code, exp_ok) ==
    IF i > Len(json) THEN CheckReturns(err_code, exp_ok)
    ELSE IF ~name_ok(json[i][1], n_max_experiments)
    THEN IF breaks(FALSE) THEN CheckReturns(WrongName, FALSE)
         ELSE check_json_dict_loop(json, i + 1, WrongName, FALSE)
    ELSE LET experiment == check_experiment(json[i][2])
         IN  IF experiment.exc # None THEN experiment
             ELSE IF ~experiment.exp_ok
             THEN IF breaks(FALSE) THEN experiment
                  ELSE check_json_dict_loop(json, i + 1, experiment.err_code, FALSE)
             ELSE LET instructions == check_instructions(json[i][2].instructions)
                  IN  IF instructions.exc # None THEN instructions
                      ELSE IF breaks(instructions.exp_ok) THEN instructions
                      ELSE check_json_dict_loop(json, i + 1, instructions.err_code,
                                                instructions.exp_ok)

\* check_json_dict(json_dict): the loop, then err_code.replace("\n", "..")
check_json_dict(json) ==
    LET checked == check_json_dict_loop(json, 1, <<"No instructions received.">>, FALSE)
    IN  IF checked.exc # None THEN checked
        ELSE CheckReturns(replace(checked.err_code, "\n", ".."), checked.exp_ok)

\* get_configuration(): the fields of the configuration that name the limits
\* of the spooler
get_configuration ==
    [max_experiments |-> n_max_experiments,
     supported_instructions |-> ins_schema_dict]

\* check_dimension(json_dict) of the class Spooler
check_dimension(json) == CheckReturns(<<>>, TRUE)
\* what check_dimension answers: the placeholder of Spooler accepts every
\* job, the method of an inheriting class may reject a job
DimensionAnswers(json) ==
    {check_dimension(json), CheckReturns(<<"Hilbert space dimension too large">>, FALSE)}

\* gen_circuit(exp_dict): the ExperimentDict the callback of the backend
\* returns for the one experiment of exp_dict
gen_circuit(experiment) ==
    [header |-> experiment[1][1], shots |-> experiment[1][2].shots, success |-> TRUE]

\* a call that add_job makes: the function, its argument, what it returned
Called(fn, arg, out) == [fn |-> fn, arg |-> arg, out |-> out]

\* how a call of a method of the spooler ends
Spooled(op, exc, checked, results) ==
    [op |-> op, exc |-> exc, err_code |-> checked.err_code, exp_ok |-> checked.exp_ok,
     results |-> results]

\* the parts add_job appends to detail and error_message
Passed == <<"; Passed json sanity check; Compilation done. Shots sent to solver.">>
FailedDimensionDetail ==
    <<"; Failed dimensionality test. Too many atoms. File will be deleted. Error message : ">>
FailedDimensionError ==
    <<"; Failed dimensionality test. Too many atoms. File will be deleted. Error message :  ">>
FailedSanity == <<"; Failed json sanity check. File will be deleted. Error message : ">>

\* add_job that hands the whole job to the callback
whole_dict(json, i) == json
\* add_job:  exp_dict = {exp: json_dict[exp]}, exp being the i-th key
exp_dict(json, i) == <<json[i]>>

\* add_job that runs the callback whatever check_dimension returned
dim_always_ok(dimension) == TRUE
\* add_job:  if dim_ok
dim_ok(dimension) == dimension.exp_ok

\* add_job that runs check_dimension and the callback whatever
\* check_json_dict returned
json_is_always_fine(checked) == TRUE
\* add_job:  if json_is_fine
json_is_fine(checked) == checked.exp_ok

\* Spooler.add_job(json_dict, status_msg_dict), the whole method: the status
\* it leaves, how it ends and the calls it makes; dimension is what
\* check_dimension of the spooler's class answers.  An exception of
\* check_json_dict leaves add_job before it has changed the status.
Spooler_add_job_checked(json, status, dimension, checked) ==
    LET first == <<Called("check_json_dict", json, checked)>>
        second == <<Called("check_dimension", json, dimension)>>
        results == [i \in 1..Len(json) |-> gen_circuit(exp_dict(json, i))]
        callbacks == [i \in 1..Len(json) |->
                         Called("gen_circuit", exp_dict(json, i), results[i])]
    IN  IF checked.exc # None
        THEN [status_msg_dict |-> status,
              returned |-> Spooled("add_job", checked.exc, checked, <<>>),
              trace |-> first]
        ELSE IF json_is_fine(checked)
        THEN IF dim_ok(dimension)
             THEN [status_msg_dict |->
                        [status EXCEPT !.detail = @ \o Passed, !.status = "DONE"],
                   returned |-> Spooled("add_job", None, checked, results),
                   trace |-> first \o second \o callbacks]
             ELSE [status_msg_dict |->
                        [status EXCEPT
                            !.detail = @ \o FailedDimensionDetail \o dimension.err_code,
                            !.error_message =
                                @ \o FailedDimensionError \o dimension.err_code,
                            !.status = "ERROR"],
                   returned |-> Spooled("add_job", None, checked, <<>>),
                   trace |-> first \o second]
        ELSE [status_msg_dict |->
                    [status EXCEPT
                        !.detail = @ \o FailedSanity \o checked.err_code,
                        !.error_message = @ \o FailedSanity \o checked.err_code,
                        !.status = "ERROR"],
              returned |-> Spooled("add_job", None, checked, <<>>),
              trace |-> first]

\* Spooler.add_job:  err_msg, json_is_fine = self.check_json_dict(json_dict)
Spooler_add_job(json, status, dimension) ==
    Spooler_add_job_checked(json, status, dimension, check_json_dict(json))

\* what a call of add_job leaves: the status it has changed in place, how it
\* ended and the calls it made
Leaves(out) ==
    /\ status_msg_dict' = out.status_msg_dict
    /\ returned' = out.returned
    /\ trace' = out.trace

\* a call of add_job of a Spooler for the job and its status
add_job(dimension) ==
    /\ returned.op = "none"
    /\ Leaves(Spooler_add_job(json_dict, status_msg_dict, dimension))
    /\ UNCHANGED <<db, backend_of, uploaded, pc, call, result_found, next_job, ended,
                   n_returned, n_running, is_active, json_dict, db_before>>

\* the part LabscriptSpooler.add_job appends to detail and error_message
LabscriptFailedDimension ==
    <<";Failed dimensionality test. Too many atoms. File will be deleted. Error message: ">>

\* LabscriptSpooler.add_job: what it does for the i-th experiment, the calls
\* of the remote client and the callback gen_circuit(exp_dict, job_id)
dispatch(json, job_id, i) ==
    <<Called("reset_shot_output_folder", <<>>, None),
      Called("_modify_shot_output_folder", <<job_id, "/">> \o json[i][1], None),
      Called("gen_circuit", <<exp_dict(json, i), job_id>>, gen_circuit(exp_dict(json, i)))>>

\* a loop that returns after the first experiment
dispatched_once(json, job_id) == dispatch(json, job_id, 1)

\* the calls LabscriptSpooler.add_job makes for the experiments, in the order
\* of the keys of the job
dispatched(json, job_id) ==
    [k \in 1..(3 * Len(json)) |-> dispatch(json, job_id, (k + 2) \div 3)[((k - 1) % 3) + 1]]

\* LabscriptSpooler.add_job(json_dict, status_msg_dict), the whole method
LabscriptSpooler_add_job_checked(json, status, dimension, checked) ==
    LET first == <<Called("check_json_dict", json, checked)>>
        second == <<Called("check_dimension", json, dimension)>>
        results == [i \in 1..Len(json) |-> gen_circuit(exp_dict(json, i))]
    IN  IF checked.exc # None
        THEN [status_msg_dict |-> status,
              returned |-> Spooled("labscript_add_job", checked.exc, checked, <<>>),
              trace |-> first]
        ELSE IF json_is_fine(checked)
        THEN IF dim_ok(dimension)
             THEN [status_msg_dict |->
                        [status EXCEPT !.detail = @ \o Passed, !.status = "DONE"],
                   returned |-> Spooled("labscript_add_job", None, checked, results),
                   trace |-> first \o second \o dispatched(json, status.job_id)]
             ELSE [status_msg_dict |->
                        [status EXCEPT
                            !.detail = @ \o LabscriptFailedDimension \o dimension.err_code,
                            !.error_message =
                                @ \o LabscriptFailedDimension \o dimension.err_code,
                            !.status = "ERROR"],
                   returned |-> Spooled("labscript_add_job", None, checked, <<>>),
                   trace |-> first \o second]
        ELSE [status_msg_dict |->
                    [status EXCEPT
                        !.detail = @ \o FailedSanity \o checked.err_code,
                        !.error_message = @ \o FailedSanity \o checked.err_code,
                        !.status = "ERROR"],
              returned |-> Spooled("labscript_add_job", None, checked, <<>>),
              trace |-> first]

\* LabscriptSpooler.add_job:  err_msg, json_is_fine = self.check_json_dict(json_dict)
LabscriptSpooler_add_job(json, status, dimension) ==
    LabscriptSpooler_add_job_checked(json, status, dimension, check_json_dict(json))

\* a call of add_job of a LabscriptSpooler for the job and its status
labscript_add_job(dimension) ==
    /\ returned.op = "none"
    /\ Leaves(LabscriptSpooler_add_job(json_dict, status_msg_dict, dimension))
    /\ UNCHANGED <<db, backend_of, uploaded, pc, call, result_found, next_job, ended,
                   n_returned, n_running, is_active, json_dict, db_before>>

\* a call of check_json_dict for the job
call_check_json_dict ==
    /\ returned.op = "none"
    /\ returned' = Spooled("check_json_dict", check_json_dict(json_dict).exc,
                           check_json_dict(json_dict), <<>>)
    /\ UNCHANGED <<db, backend_of, uploaded, pc, call, result_found, next_job, ended,
                   n_returned, n_running, is_active, json_dict, status_msg_dict, trace, db_before>>

\* a call of check_instructions for the instructions of the i-th experiment
call_check_instructions(i) ==
    /\ returned.op = "none"
    /\ i \in 1..Len(json_dict)
    /\ json_dict[i][2].type = "dict"
    /\ returned' = Spooled("check_instructions",
                           check_instructions(json_dict[i][2].instructions).exc,
                           check_instructions(json_dict[i][2].instructions), <<>>)
    /\ trace' = <<Called("check_instructions", json_dict[i][2].instructions,
                         check_instructions(json_dict[i][2].instructions))>>
    /\ UNCHANGED <<db, backend_of, uploaded, pc, call, result_found, next_job, ended,
                   n_returned, n_running, is_active, json_dict, status_msg_dict, db_before>>

\* ---- the job payloads
\* number of records of a job payload: its experiments and their instructions
MaxRecords == 4
\* number of characters that follow the prefix of an experiment name
MaxDigits == 2

\* the instruction records of the payloads
Load == PyList(<<PyStr("load"), PyList(<<0>>), PyList(<<>>)>>)
NotAllowed == PyList(<<PyStr("test"), PyList(<<1, 2>>), PyList(<<1, 2>>)>>)
NotAllowedWrongParams == PyList(<<PyStr("test"), PyList(<<1, 2>>), PyStr("test")>>)
WrongWire == PyList(<<PyStr("load"), PyList(<<NUM_WIRES + 1>>), PyList(<<>>)>>)
TooShort == PyList(<<PyStr("test"), PyList(<<1, 2>>)>>)
NotAList == PyInt(5)
Instructions == {Load, NotAllowed, NotAllowedWrongParams, WrongWire, TooShort, NotAList}

\* the lists of n instruction records
RECURSIVE InstructionLists(_)
InstructionLists(n) ==
    IF n = 0 THEN {<<>>}
    ELSE {ins_list \o <<ins>> : ins_list \in InstructionLists(n - 1), ins \in Instructions}

\* the experiments with n instruction records
Experiments(n) ==
    {Experiment(ins_list, 4) : ins_list \in InstructionLists(n)}
        \cup (IF n = 0 THEN {Experiment(<<>>, 6), NotAMapping} ELSE {})

\* the names of the experiments of the payloads of several experiments
experiment_0 == experiment_ \o <<"0">>
experiment_1 == experiment_ \o <<"1">>
exp_0 == <<"e", "x", "p", "_", "0">>
JobKeys == {experiment_0, experiment_1, exp_0}

\* the keys of a dict
Keys(json) == {json[i][1] : i \in 1..Len(json)}

\* whether the keys of the items are distinct
IsDict(json) == Cardinality(Keys(json)) = Len(json)

\* the payloads of at most n records: the dicts of experiments
RECURSIVE Payloads(_)
Payloads(n) ==
    IF n = 0 THEN {<<>>}
    ELSE {<<>>} \cup UNION {
            {json \in {<<<<key, experiment>>>> \o rest :
                            key \in JobKeys, experiment \in Experiments(m),
                            rest \in Payloads(n - 1 - m)} : IsDict(json)} :
            m \in 0..(n - 1)}

\* the characters that follow the prefix of an experiment name
NameCharacters == {"0", "1", "5", "6", "a"} \cup OtherDigits
RECURSIVE Strings(_)
Strings(n) ==
    IF n = 0 THEN {<<>>}
    ELSE Strings(n - 1) \cup {s \o <<c>> : s \in Strings(n - 1), c \in NameCharacters}
\* the names of an experiment, of at most n characters after the prefix
ExperimentNames(n) ==
    {prefix \o s : prefix \in {experiment_, <<"e", "x", "p", "_">>}, s \in Strings(n)}
\* the payloads of one valid experiment under every name
NamedPayloads(n) == {<<<<key, Experiment(<<Load>>, 4)>>>> : key \in ExperimentNames(n)}

\* str(n) of a natural number
RECURSIVE Decimal(_)
Decimal(n) ==
    IF n < 10 THEN <<AsciiDigits[n + 1]>>
    ELSE Decimal(n \div 10) \o <<AsciiDigits[(n % 10) + 1]>>
\* the job of the valid experiments experiment_0 .. experiment_<n>
NumberedJob(n) ==
    [i \in 1..(n + 1) |-> <<experiment_ \o Decimal(i - 1), Experiment(<<Load>>, 4)>>]

\* the jobs that are handed to the spooler
Jobs(n_records, n_digits) == Payloads(n_records) \cup NamedPayloads(n_digits)

\* the status of a job that is handed to add_job
StatusDrafts ==
    {[job_id |-> "Test_ID", status |-> None, detail |-> <<None>>,
      error_message |-> <<None>>]}

\* The spooler is handed a job and its status.
InitSpooler ==
    /\ db = [p \in Paths |-> {}]
    /\ backend_of = [oid \in Oids |-> NoBackend]
    /\ uploaded = [oid \in Oids |-> NoContent]
    /\ pc = [w \in Workers |-> "idle"]
    /\ call = [w \in Workers |-> NoCall]
    /\ result_found = [w \in Workers |-> NoDocument]
    /\ next_job = [w \in Workers |-> NoJob]
    /\ ended = NotEnded
    /\ n_returned = [oid \in Oids |-> 0]
    /\ n_running = [oid \in Oids |-> 0]
    /\ is_active = TRUE
    /\ json_dict \in Jobs(MaxRecords, MaxDigits) \cup {NumberedJob(n_max_experiments)}
    /\ status_msg_dict \in StatusDrafts
    /\ returned = NotReturned
    /\ trace = <<>>
    /\ db_before = [p \in Paths |-> {}]

\* One call of a method of the spooler for the job.
NextSpooler ==
    \/ \E dimension \in DimensionAnswers(json_dict) : add_job(dimension)
    \/ \E dimension \in DimensionAnswers(json_dict) : labscript_add_job(dimension)
    \/ call_check_json_dict
    \/ \E i \in 1..MaxRecords : call_check_instructions(i)

SpecSpooler == InitSpooler /\ [][NextSpooler]_vars

\* C23: add_job never raises for a malformed job payload.  A call of add_job
\* returns a result and a status, and the status of a job that the checks do
\* not accept is ERROR.
C23_AddJobNeverRaises ==
    returned.op = "add_job"
        => /\ returned.exc = None
           /\ ~returned.exp_ok => status_msg_dict.status = "ERROR"

\* s.endswith(suffix)
endswith(s, suffix) ==
    /\ Len(s) >= Len(suffix)
    /\ SubSeq(s, Len(s) - Len(suffix) + 1, Len(s)) = suffix
\* new is old with more text after it
Appended(old, new) == Len(new) > Len(old) /\ startswith(new, old)

\* C24: The error path of add_job.  When check_json_dict rejects the job,
\* add_job returns with status ERROR; detail and error_message keep their
\* previous text as a prefix and end with the error message of
\* check_json_dict; the results of the result are empty; neither
\* check_dimension nor the callback of the backend is called.
C24_ErrorPath ==
    [][(/\ returned'.op = "add_job"
        /\ check_json_dict(json_dict).exc = None
        /\ ~check_json_dict(json_dict).exp_ok)
          => /\ returned'.exc = None
             /\ status_msg_dict'.status = "ERROR"
             /\ Appended(status_msg_dict.detail, status_msg_dict'.detail)
             /\ endswith(status_msg_dict'.detail, check_json_dict(json_dict).err_code)
             /\ Appended(status_msg_dict.error_message, status_msg_dict'.error_message)
             /\ endswith(status_msg_dict'.error_message,
                         check_json_dict(json_dict).err_code)
             /\ returned'.results = <<>>
             /\ \A i \in 1..Len(trace') :
                    trace'[i].fn \notin {"check_dimension", "gen_circuit"}]_vars

\* add_job has returned for a job of two experiments whose second experiment
\* has an instruction that is not allowed
C24_Witness ==
    /\ returned.op = "add_job"
    /\ returned.exc = None
    /\ Len(json_dict) = 2
    /\ returned.err_code = <<"Instruction not allowed.">>
    /\ status_msg_dict.status = "ERROR"

\* the calls of the callback that add_job made
Callbacks == SelectSeq(trace, LAMBDA c : c.fn = "gen_circuit")

\* C25: The success path of add_job.  When check_json_dict and
\* check_dimension accept the job, the callback of the backend is called once
\* for every experiment, in the order of the keys of the job, each time with
\* the dict of that key and its experiment alone; the results of the result
\* are what the calls returned, in that order; the status is DONE and detail
\* keeps its previous text as a prefix and has the success note after it.
C25_SuccessPath ==
    [][(/\ returned'.op = "add_job"
        /\ check_json_dict(json_dict).exc = None
        /\ check_json_dict(json_dict).exp_ok
        /\ \E i \in 1..Len(trace') :
                trace'[i].fn = "check_dimension" /\ trace'[i].out.exp_ok)
          => /\ returned'.exc = None
             /\ Len(Callbacks') = Len(json_dict)
             /\ \A i \in 1..Len(json_dict) :
                    /\ Callbacks'[i].arg = <<json_dict[i]>>
                    /\ returned'.results[i] = Callbacks'[i].out
             /\ Len(returned'.results) = Len(json_dict)
             /\ status_msg_dict'.status = "DONE"
             /\ Appended(status_msg_dict.detail, status_msg_dict'.detail)
             /\ endswith(status_msg_dict'.detail, Passed)]_vars

\* add_job has run a job of two experiments
C25_Witness ==
    /\ returned.op = "add_job"
    /\ status_msg_dict.status = "DONE"
    /\ Len(json_dict) = 2
    /\ Len(returned.results) = 2
    /\ json_dict[1][1] = experiment_1
    /\ Callbacks[1].arg = <<json_dict[1]>>

\* the places of the calls of a function in the calls add_job made
Places(fn) == {i \in 1..Len(trace) : trace[i].fn = fn}

\* C26: In add_job, check_dimension is called only after check_json_dict has
\* accepted the job, and before every call of the callback.  When
\* check_dimension rejects the job, the status is ERROR, detail and
\* error_message keep their previous text as a prefix and end with the
\* message of check_dimension after a text that is not the text of a failed
\* check_json_dict, the results are empty and the callback is not called.
C26_DimensionCheck ==
    [][returned'.op = "add_job"
          => /\ \A i \in Places("check_dimension")' :
                    /\ \E j \in Places("check_json_dict")' :
                            /\ j < i
                            /\ trace'[j].out.exc = None
                            /\ trace'[j].out.exp_ok
                    /\ \A j \in Places("gen_circuit")' : i < j
                    /\ ~trace'[i].out.exp_ok
                          => /\ returned'.exc = None
                             /\ status_msg_dict'.status = "ERROR"
                             /\ Appended(status_msg_dict.detail, status_msg_dict'.detail)
                             /\ endswith(status_msg_dict'.detail,
                                         FailedDimensionDetail \o trace'[i].out.err_code)
                             /\ Appended(status_msg_dict.error_message,
                                         status_msg_dict'.error_message)
                             /\ endswith(status_msg_dict'.error_message,
                                         FailedDimensionError \o trace'[i].out.err_code)
                             /\ FailedSanity \notin {FailedDimensionDetail,
                                                     FailedDimensionError}
                             /\ returned'.results = <<>>
                             /\ Places("gen_circuit")' = {}
             /\ Places("gen_circuit")' # {} => Places("check_dimension")' # {}]_vars

\* check_dimension has rejected a job of two experiments that check_json_dict
\* accepted
C26_Witness ==
    /\ returned.op = "add_job"
    /\ Len(json_dict) = 2
    /\ \E i \in Places("check_dimension") : ~trace[i].out.exp_ok
    /\ status_msg_dict.status = "ERROR"

\* the names experiment_0 .. experiment_<n_max>
NumberedNames(n_max) == {experiment_ \o Decimal(n) : n \in 0..n_max}
\* "experiment_" followed by a non-negative integer of at most n_max, which
\* may be written with zeros before it
IsNumberedName(key, n_max) ==
    \E name \in NumberedNames(n_max), zeros \in 0..MaxDigits :
        key = experiment_ \o [i \in 1..zeros |-> "0"] \o SubSeq(name, 12, Len(name))

\* C27: The names of the experiments.  For a job of one valid experiment,
\* check_json_dict returns ('', true) if the key is one of experiment_0 ..
\* experiment_<n_max_experiments>, and it returns false with the message
\* 'Wrong experiment name or too many experiments', without raising, if the
\* key is not 'experiment_' followed by a non-negative integer of at most
\* n_max_experiments.  The test of the name does the same with the limit
\* max_exps of spooler_files.
C27_ExperimentNaming ==
    (/\ returned.op = "check_json_dict"
     /\ Len(json_dict) = 1
     /\ json_dict[1][2] = Experiment(<<Load>>, 4))
        => /\ returned.exc = None
           /\ json_dict[1][1] \in NumberedNames(n_max_experiments)
                => returned.exp_ok /\ returned.err_code = <<>>
           /\ ~IsNumberedName(json_dict[1][1], n_max_experiments)
                => ~returned.exp_ok /\ returned.err_code = WrongName
           /\ json_dict[1][1] \in NumberedNames(max_exps)
                => name_ok(json_dict[1][1], max_exps)
           /\ ~IsNumberedName(json_dict[1][1], max_exps)
                => ~name_ok(json_dict[1][1], max_exps)

\* check_json_dict has rejected experiment_16
C27_Witness ==
    /\ returned.op = "check_json_dict"
    /\ json_dict = <<<<experiment_ \o <<"1", "6">>, Experiment(<<Load>>, 4)>>>>
    /\ ~returned.exp_ok
    /\ returned.err_code = WrongName

\* an instruction [name, wires, params] whose name is a str that is not a
\* key of ins_schema_dict
NotInSchema(ins) ==
    /\ is_list(ins)
    /\ Len(ins[2]) = 3
    /\ is_str(ins[2][1])
    /\ ins[2][1][2] \notin ins_schema_dict

\* C28: The list of the allowed instructions.  check_instructions rejects an
\* instruction whose name is not a key of ins_schema_dict with ok = false and
\* exactly the message 'Instruction not allowed.', whatever its wires and
\* params are; here for the first instruction of the list.
C28_NotAllowed ==
    (/\ returned.op = "check_instructions"
     /\ trace[1].arg # <<>>
     /\ NotInSchema(trace[1].arg[1]))
        => /\ returned.exc = None
           /\ ~returned.exp_ok
           /\ returned.err_code = <<"Instruction not allowed.">>

\* a check that failed: it raised or it returned ok = false
Failed(checked) == checked.exc # None \/ ~checked.exp_ok
\* the places of the experiments of a job that fail when checked alone, and
\* of the instructions of a list that fail when checked alone
FailingExperiments(json) ==
    {i \in 1..Len(json) : Failed(check_json_dict(<<json[i]>>))}
FailingInstructions(ins_list) ==
    {i \in 1..Len(ins_list) : Failed(check_instructions(<<ins_list[i]>>))}
\* the first of a set of places
First(places) == CHOOSE i \in places : \A j \in places : i <= j

\* C29: check_json_dict stops at the first failure of the whole job.  With
\* the experiments taken in the order of the job and the instructions in the
\* order of their list, what check_json_dict returns for a job with a failing
\* experiment is what it returns for the first failing experiment alone, and
\* what check_instructions returns for a list with a failing instruction is
\* what it returns for the first failing instruction alone: nothing after
\* that place changes the outcome, and the job is not ok even if every other
\* experiment is valid.
C29_ShortCircuit ==
    /\ (returned.op = "check_json_dict" /\ FailingExperiments(json_dict) # {})
          => LET first == check_json_dict(<<json_dict[First(FailingExperiments(json_dict))]>>)
             IN  /\ returned = Spooled("check_json_dict", first.exc, first, <<>>)
                 /\ returned.exc = None => ~returned.exp_ok
    /\ (returned.op = "check_instructions" /\ FailingInstructions(trace[1].arg) # {})
          => LET first == check_instructions(
                              <<trace[1].arg[First(FailingInstructions(trace[1].arg))]>>)
             IN  /\ returned = Spooled("check_instructions", first.exc, first, <<>>)
                 /\ returned.exc = None => ~returned.exp_ok

\* check_json_dict has rejected a job of two experiments of which the first
\* is valid and the second is not
C29_Witness ==
    /\ returned.op = "check_json_dict"
    /\ Len(json_dict) = 2
    /\ FailingExperiments(json_dict) = {2}
    /\ returned.exc = None
    /\ ~returned.exp_ok
    /\ returned.err_code # <<>>

\* a job of which each key is a valid name, each body passes the scheme of
\* the experiments and each instruction of each list is allowed and has valid
\* wires and params
ValidJob(json) ==
    \A i \in 1..Len(json) :
        /\ name_ok(json[i][1], n_max_experiments)
        /\ ~Failed(check_experiment(json[i][2]))
        /\ FailingInstructions(json[i][2].instructions) = {}

\* C30: check_json_dict returns ('', true) for every job of at least one
\* experiment in which each key is a valid name of an experiment, each body
\* passes the scheme of the experiments and each instruction of each list,
\* of any length, the empty list included, is an allowed instruction with
\* valid wires and params; it returns ok = false only if one of the three
\* checks is violated.
C30_ValidJobAccepted ==
    (returned.op = "check_json_dict" /\ json_dict # <<>> /\ ValidJob(json_dict))
        => /\ returned.exc = None
           /\ returned.exp_ok
           /\ returned.err_code = <<>>

\* C31: max_experiments is the largest number of experiments of a job.  Every
\* job that check_json_dict accepts holds at most n_max_experiments
\* experiments, the value get_configuration publishes as max_experiments.
C31_MaxExperiments ==
    (returned.op = "check_json_dict" /\ returned.exc = None /\ returned.exp_ok)
        => Len(json_dict) <= get_configuration.max_experiments

\* ------------------------------------------- the reports of a worker
\* StatusMsgDict.status is a str: the four values of a status, and a str
\* that is none of them
StatusValues == {"INITIALIZING", "RUNNING", "DONE", "ERROR"}
OtherStatus == "PAUSED"
\* the status a caller passes to update_in_database
ReportedStatuses == {"RUNNING", "DONE", "ERROR", OtherStatus}

\* the caller of update_in_database chooses its arguments job_id and
\* backend_name: the id of a job that was uploaded, and a backend
chooses(w, job_id, backend_name) ==
    /\ pc[w] = "idle"
    /\ IsValidId(job_id)
    /\ backend_of[ObjectId(job_id)] # NoBackend
    /\ next_job[w] # [job_id |-> job_id, backend_name |-> backend_name]
    /\ next_job' = [next_job EXCEPT ![w] =
            [job_id |-> job_id, backend_name |-> backend_name]]
    /\ ended' = NotEnded
    /\ UNCHANGED <<db, backend_of, uploaded, pc, call, result_found, n_returned,
                   n_running, is_active, spooler, db_before>>

\* number of jobs that are uploaded over a run of the reporting process
MaxReportedJobs == 1

\* One process that uploads jobs and their status for a backend, polls its
\* queue, and calls update_in_database with arguments of its choice, one
\* call at a time.
NextReport ==
    \/ /\ pc[Caller] = "idle"
       /\ NUploaded < MaxReportedJobs
       /\ upload_job(FileBackend)
    \/ \E oid \in Oids :
            /\ pc[Caller] = "idle"
            /\ backend_of[oid] = FileBackend
            /\ upload_status(FileBackend, StrOfObjectId(oid))
    \/ get_next_job_in_queue(Caller, FileBackend)
    \/ move_find(Caller)
    \/ move_delete(Caller)
    \/ move_insert(Caller)
    \/ \E id \in JobIds, b \in Backends : chooses(Caller, id, b)
    \/ \E s \in ReportedStatuses, r \in ResultDicts :
            update_in_database(Caller, s, r) /\ db_before' = db
    \/ update_status(Caller)

SpecReport == Init /\ [][NextReport]_vars

\* C32: Every status record that the provider stores, and every status that
\* get_status returns, after any sequence of upload_status and
\* update_in_database calls, has a status in {INITIALIZING, RUNNING, DONE,
\* ERROR}.
C32_StatusValues ==
    /\ \A b \in Backends : \A oid \in Ids(status_json_dir(b)) :
            StoredStatus(b, oid) \in StatusValues
    /\ \A b \in Backends, job_id \in JobIds :
            get_status(b, job_id).kind = "return"
                => getitem(get_status(b, job_id).value, "status") \in StatusValues

\* the places update_in_database writes to: the places of the jobs, the
\* results and the status records
ReportPaths ==
    JobPaths \cup {result_json_dir(b) : b \in Backends}
             \cup {status_json_dir(b) : b \in Backends}

\* C37: update_in_database does all or nothing.  When a call has raised (the
\* job is not in jobs/running, there is no status record at
\* status/<backend_name>/<job_id>, backend_name is not the backend of the
\* job, or a result is stored for the id), the place of the job, the results
\* and the status records are what they were before the call.
C37_AllOrNothing ==
    (ended.op = "update_in_database" /\ ended.kind = "raise")
        => \A path \in ReportPaths : db[path] = db_before[path]

Validation(calls) ==
    SelectSeq(calls, LAMBDA c : c.fn \in {"check_json_dict", "check_dimension", "gen_circuit"})
\* the callback ran only after check_json_dict and check_dimension had
\* accepted the job
CallbackOnlyIfAccepted(calls) ==
    \A k \in 1..Len(calls) :
        calls[k].fn = "gen_circuit"
            => /\ \E j \in 1..(k - 1) :
                    /\ calls[j].fn = "check_json_dict"
                    /\ calls[j].out.exc = None /\ calls[j].out.exp_ok
               /\ \E j \in 1..(k - 1) :
                    calls[j].fn = "check_dimension" /\ calls[j].out.exp_ok

\* C33: LabscriptSpooler.add_job and Spooler.add_job agree on what the
\* validation decides.  For every job, status and answer of check_dimension,
\* a call of LabscriptSpooler.add_job ends as the call of Spooler.add_job
\* for the same arguments: both return or both raise the same exception, the
\* status is the same (DONE or ERROR), the result has the same number of
\* results, both run the callback only after check_json_dict and
\* check_dimension have accepted, and they make the same checks and run the
\* callback for the same experiments in the same order; LabscriptSpooler
\* makes in addition the calls of the remote client for each experiment.
\* With the check_dimension of Spooler, which both classes use, the status
\* and the results are the same in every field.
C33_SameValidation ==
    [][returned'.op = "labscript_add_job"
          => \E dimension \in DimensionAnswers(json_dict) :
                LET spooler_out == Spooler_add_job(json_dict, status_msg_dict, dimension)
                IN  /\ \A k \in 1..Len(trace') :
                            trace'[k].fn = "check_dimension" => trace'[k].out = dimension
                    /\ returned'.exc = spooler_out.returned.exc
                    /\ status_msg_dict'.status = spooler_out.status_msg_dict.status
                    /\ returned'.exc = None => status_msg_dict'.status \in {"DONE", "ERROR"}
                    /\ Len(returned'.results) = Len(spooler_out.returned.results)
                    /\ CallbackOnlyIfAccepted(trace')
                    /\ CallbackOnlyIfAccepted(spooler_out.trace)
                    /\ Len(Validation(trace')) = Len(spooler_out.trace)
                    /\ \A k \in 1..Len(spooler_out.trace) :
                            /\ Validation(trace')[k].fn = spooler_out.trace[k].fn
                            /\ Validation(trace')[k].out = spooler_out.trace[k].out
                            /\ spooler_out.trace[k].fn = "gen_circuit"
                                => Validation(trace')[k].arg[1] = spooler_out.trace[k].arg
                            /\ spooler_out.trace[k].fn # "gen_circuit"
                                => Validation(trace')[k].arg = spooler_out.trace[k].arg
                    /\ Len(trace') = Len(spooler_out.trace)
                                        + 2 * Len(spooler_out.returned.results)
                    /\ dimension = check_dimension(json_dict)
                        => /\ status_msg_dict' = spooler_out.status_msg_dict
                           /\ returned'.results = spooler_out.returned.results]_vars

\* LabscriptSpooler.add_job has run a job of two experiments: it has called
\* the remote client and the callback for each of them
C33_Witness ==
    /\ returned.op = "labscript_add_job"
    /\ returned.exc = None
    /\ status_msg_dict.status = "DONE"
    /\ Len(returned.results) = 2
    /\ Len(trace) = 8
    /\ trace[4].fn = "_modify_shot_output_folder"
    /\ trace[8].fn = "gen_circuit"

\* ------------------------------------------------ the lifecycle of a job
\* the ids of a collection after the step
IdsAfter(path) == {d._id : d \in db'[path]}

\* C34: The job lifecycle only moves forward.  Under every interleaving of
\* upload_job, get_next_job_in_queue and update_in_database by concurrent
\* workers, no step puts a job that was uploaded and has left
\* jobs/queued/<backend> into jobs/queued/<backend> again, and no step puts a
\* job that is in jobs/finished/<backend> or in jobs/deleted, and not in
\* jobs/running, into jobs/running.
C34_OnlyForward ==
    [][\A b \in Backends, oid \in Oids :
            /\ (backend_of[oid] = b /\ oid \notin Ids(queue_dir(b)))
                    => oid \notin IdsAfter(queue_dir(b))
            /\ (/\ oid \in Ids(job_finished_json_dir(b)) \cup Ids(deleted_json_dir)
                /\ oid \notin Ids(job_json_start_dir))
                    => oid \notin IdsAfter(job_json_start_dir)]_vars

\* ------------------------------------------- concurrent uploads of configs
\* upload_config, its first storage call:
\*   result_found = collection.find_one({"display_name": backend_name})
config_find(w, backend_name) ==
    /\ pc[w] = "idle"
    /\ pc' = [pc EXCEPT ![w] = "config_write"]
    /\ call' = [call EXCEPT ![w] = [FileCall("upload_config", config_path, None)
                                        EXCEPT !.backend_name = backend_name]]
    /\ result_found' = [result_found EXCEPT ![w] = find_config(backend_name)]
    /\ ended' = NotEnded
    /\ UNCHANGED <<db, backend_of, uploaded, next_job, n_returned, n_running, is_active,
                   spooler, db_before>>

\* upload_config, its second storage call: update_file under the _id that
\* was found, or upload under a new id if no config was found.  config_dict
\* is the argument of the call; this is the step that reads it.
config_write(w, config_dict) ==
    /\ pc[w] = "config_write"
    /\ LET named == setitem(config_dict, "display_name", call[w].backend_name)
       IN  IF is_found(result_found[w])
           THEN db' = update_file(named, config_path, StrOfObjectId(result_found[w]._id))
           ELSE /\ Oids \ Ids(config_path) # {}
                /\ db' = upload(named, config_path, StrOfObjectId(FreshConfigOid))
    /\ Finish(w, call[w], Returns(NoJobDict))
    /\ result_found' = [result_found EXCEPT ![w] = NoDocument]
    /\ UNCHANGED <<backend_of, uploaded, next_job, n_returned, n_running, is_active,
                   spooler, db_before>>

\* get_backends(): the display names of the configs, in the order of find()
get_backends ==
    LET order == NaturalOrder(Ids(config_path))
    IN  [i \in 1..Len(order) |->
            getitem(find_one(db[config_path], order[i]).body, "display_name")]

\* Spoolers that upload their configs concurrently: the storage calls of
\* their upload_config calls interleave.
NextUploads ==
    \/ \E w \in Workers, b \in Backends : config_find(w, b)
    \/ \E w \in Workers, c \in ConfigDicts : config_write(w, c)

SpecUploads == Init /\ [][NextUploads]_vars

\* C39: Config identity is the display name.  After every interleaving of
\* the storage calls of upload_config calls, two callers uploading the same
\* display name concurrently included, backends/configs holds at most one
\* config per display name and get_backends lists each display name at most
\* once.
C39_OneConfigPerName ==
    /\ \A b \in Backends :
            Cardinality({d \in db[config_path] : getitem(d.body, "display_name") = b}) <= 1
    /\ \A i, j \in 1..Len(get_backends) :
            get_backends[i] = get_backends[j] => i = j

\* ------------------------------------------------ the queues of the backends
\* the jobs the step has uploaded
UploadedByStep == {oid \in Oids : backend_of[oid] = NoBackend /\ backend_of'[oid] # NoBackend}

\* the queue of every backend but b is after the step as it was before
OtherQueuesUnchanged(b) ==
    \A other \in Backends \ {b} : db'[queue_dir(other)] = db[queue_dir(other)]

\* C36: Queues are isolated per backend.  A step of upload_job for backend b
\* adds exactly one id, which was at no place of a job before, to
\* jobs/queued/<b> and changes the queue of no other backend.  A
\* get_next_job_in_queue(b) that returns a job returns the id of a job that
\* was uploaded for b, and no step of a get_next_job_in_queue(b) call changes
\* jobs/queued/<b'> of another backend b'.
C36_QueuesIsolated ==
    [][/\ \A oid \in UploadedByStep :
            /\ UploadedByStep = {oid}
            /\ Locations(oid) = {}
            /\ IdsAfter(queue_dir(backend_of'[oid])) = Ids(queue_dir(backend_of'[oid])) \cup {oid}
            /\ OtherQueuesUnchanged(backend_of'[oid])
       /\ (/\ ended'.op = "get_next_job_in_queue"
           /\ ended' # ended
           /\ ended'.kind = "return"
           /\ ended'.job_dict.job_json_path = job_json_start_dir)
                => /\ ended'.job_dict.job_id = PyStr(ended'.job_id)
                   /\ backend_of[ObjectId(ended'.job_id)] = ended'.backend_name
       /\ \A w \in Workers :
            (call[w].op = "get_next_job_in_queue" /\ pc'[w] # pc[w])
                => OtherQueuesUnchanged(call[w].backend_name)]_vars

\* get_next_job_in_queue has handed out a job of one backend while a job of
\* the other backend is queued
C36_Witness ==
    /\ ended.op = "get_next_job_in_queue"
    /\ ended.kind = "return"
    /\ ended.job_dict.job_json_path = job_json_start_dir
    /\ \E other \in Backends \ {ended.backend_name} : Ids(queue_dir(other)) # {}

\* ------------------------------------------------------ one worker drains a queue
\* The worker of a backend: it polls the queue of the backend, reports the
\* job it was handed and polls again.
DrainWorker ==
    \/ get_next_job_in_queue(Caller, FileBackend)
    \/ move_find(Caller)
    \/ move_delete(Caller)
    \/ move_insert(Caller)
    \/ \E s \in Statuses, r \in ResultDicts :
            update_in_database(Caller, s, r) /\ UNCHANGED db_before
    \/ update_status(Caller)

\* The client uploads jobs for the backend, as many as there are ids, and
\* their status.
DrainClient ==
    \/ upload_job(FileBackend)
    \/ \E oid \in Oids :
            backend_of[oid] = FileBackend /\ upload_status(FileBackend, StrOfObjectId(oid))

NextDrain == DrainClient \/ DrainWorker

\* the worker process keeps running: it makes a step whenever it can
SpecDrain == Init /\ [][NextDrain]_vars /\ WF_vars(DrainWorker)

\* what get_next_job_in_queue returns for an empty queue
EmptyAnswer == [job_id |-> PyInt(0), job_json_path |-> "None"]

\* C35: Queue drain.  With finitely many jobs uploaded for a backend and one
\* worker that keeps calling get_next_job_in_queue for it (weak fairness on
\* the worker), every uploaded job is eventually handed out, no job is handed
\* out more than once, the queue is eventually empty and stays empty, and
\* every call on an empty queue returns the answer for an empty queue and
\* leaves the storage as it is.
C35_QueueDrain ==
    /\ \A oid \in Oids : (backend_of[oid] # NoBackend) ~> (n_returned[oid] = 1)
    /\ [](\A oid \in Oids : n_returned[oid] <= 1)
    /\ <>[](Ids(queue_dir(FileBackend)) = {})
    /\ [][(get_next_job_in_queue(Caller, FileBackend) /\ Ids(queue_dir(FileBackend)) = {})
            => /\ ended'.kind = "return"
               /\ ended'.job_dict = EmptyAnswer
               /\ db' = db]_vars

\* every job there is an id for was uploaded and handed out, and the call
\* after the last job has found the queue empty
C35_Witness ==
    /\ \A oid \in Oids : backend_of[oid] = FileBackend /\ n_returned[oid] = 1
    /\ Ids(queue_dir(FileBackend)) = {}
    /\ ended.op = "get_next_job_in_queue"
    /\ ended.job_dict = EmptyAnswer
====
